---- MODULE Spec2Model ----
(***************************************************************************)
(* The concurrent runtime of par-lang (src/src/par/runtime.rs): tasks that *)
(* run processes and exchange Messages over one-shot channels.             *)
(*                                                                         *)
(* A task is a Context (variables, loop_points) running `run` on a         *)
(* process.  Processes are data (Let / Do with a command / Telltypes), and *)
(* the initial states draw the processes of the tasks from the sets at the *)
(* end of the module.  An action is one iteration of the loop of `run` up  *)
(* to its first pending await, or the resumption of a pending await up to  *)
(* the end of the iteration.                                               *)
(*                                                                         *)
(* The second half of the module is the type checker (src/src/par/types.rs)*)
(* with its own specification, TypeSpec: the variable `checker` is the     *)
(* checker's Context while it walks down a process, one command a step.    *)
(***************************************************************************)
EXTENDS Integers, Sequences, FiniteSets, TLC

VARIABLES tasks, chan, drains, checker

vars == <<tasks, chan, drains, checker>>

(***************************************************************************)
(* Bounds of the model.                                                    *)
(***************************************************************************)
MaxChan == 8
MaxTask == 7

\* Option<Name> keys of loop_points: None and one label
Points == {"None", "l"}

\* the type checker is not part of a running program
NotChecking == [st |-> "off"]

(***************************************************************************)
(* Values, Requests, Operations, Errors, Messages                          *)
(***************************************************************************)
Sender(c) == [side |-> "Sender", ch |-> c]
Receiver(c) == [side |-> "Receiver", ch |-> c]
NoValue == [side |-> "None", ch |-> 0]

ReqReceive == [kind |-> "Receive"]
ReqMatch(choices) == [kind |-> "Match", choices |-> choices]
ReqContinue == [kind |-> "Continue"]
ReqDynamic == [kind |-> "Dynamic"]

OpUnknown == [kind |-> "Unknown"]
OpSend == [kind |-> "Send"]
OpReceive == [kind |-> "Receive"]
OpChoose(chosen) == [kind |-> "Choose", chosen |-> chosen]
OpMatch(choices) == [kind |-> "Match", choices |-> choices]
OpBreak == [kind |-> "Break"]
OpContinue == [kind |-> "Continue"]

NoError == [kind |-> "None"]
NameNotDefined(name) == [kind |-> "NameNotDefined", name |-> name]
ShadowedObligation(name) == [kind |-> "ShadowedObligation", name |-> name]
UnfulfilledObligations(names) == [kind |-> "UnfulfilledObligations", names |-> names]
IncompatibleOperations(op1, op2) == [kind |-> "IncompatibleOperations", op1 |-> op1, op2 |-> op2]
NoSuchLoopPoint(point) == [kind |-> "NoSuchLoopPoint", point |-> point]
Multiple(e1, e2) == [kind |-> "Multiple", first |-> e1, second |-> e2]

MsgSwap(request, tx) == [kind |-> "Swap", request |-> request, tx |-> tx]
MsgSend(value, rx) == [kind |-> "Send", value |-> value, rx |-> rx]
MsgChoose(chosen, rx) == [kind |-> "Choose", chosen |-> chosen, rx |-> rx]
MsgBreak == [kind |-> "Break"]
MsgError(error) == [kind |-> "Error", error |-> error]
NoMsg == [kind |-> "None"]

\* Request::into_operation
IntoOperation(request) ==
    CASE request.kind = "Receive" -> OpReceive
      [] request.kind = "Match" -> OpMatch(request.choices)
      [] request.kind = "Continue" -> OpContinue
      [] OTHER -> OpUnknown

\* Message::into_operation_and_values
IntoOperationAndValues(message) ==
    CASE message.kind = "Swap" ->
            [ok |-> TRUE, op |-> IntoOperation(message.request),
             values |-> <<Sender(message.tx)>>, error |-> NoError]
      [] message.kind = "Send" ->
            [ok |-> TRUE, op |-> OpSend,
             values |-> <<message.value, Receiver(message.rx)>>, error |-> NoError]
      [] message.kind = "Choose" ->
            [ok |-> TRUE, op |-> OpChoose(message.chosen),
             values |-> <<Receiver(message.rx)>>, error |-> NoError]
      [] message.kind = "Break" ->
            [ok |-> TRUE, op |-> OpBreak, values |-> <<>>, error |-> NoError]
      [] OTHER ->
            [ok |-> FALSE, op |-> OpUnknown, values |-> <<>>, error |-> message.error]

\* a matches without the two Dynamic arms
MatchesConcrete(self, other) ==
    \/ self.kind = "Receive" /\ other.kind = "Receive"
    \/ self.kind = "Match" /\ other.kind = "Match"
    \/ self.kind = "Continue" /\ other.kind = "Continue"

\* Request::matches
Matches(self, other) ==
    \/ self.kind = "Dynamic"
    \/ other.kind = "Dynamic"
    \/ self.kind = "Receive" /\ other.kind = "Receive"
    \/ self.kind = "Match" /\ other.kind = "Match"
    \/ self.kind = "Continue" /\ other.kind = "Continue"

\* the endpoints a message owns (what dropping the message drops)
ValuesOf(message) ==
    IF message.kind \in {"Swap", "Send", "Choose"}
    THEN IntoOperationAndValues(message).values
    ELSE <<>>

SeqToSet(q) == {q[i] : i \in 1..Len(q)}

(***************************************************************************)
(* One-shot channels (futures::channel::oneshot).                          *)
(* A cell holds the data slot and the state of its two ends; `sent` and    *)
(* `rcvd` record every message passed to send and yielded by the receiver, *)
(* `after` records the channel that carried the previous message of the    *)
(* same session (0: none).                                                 *)
(***************************************************************************)
FreshCell ==
    [data |-> NoMsg, tx |-> "live", rx |-> "live",
     sent |-> <<>>, rcvd |-> <<>>, after |-> 0]

\* the state an action works on
Cur == [tasks |-> tasks, chan |-> chan, drains |-> drains]

\* oneshot::channel(): the identifier of the pair allocated next
NextId(s) == Len(s.chan) + 1

Channel(s) == [s EXCEPT !.chan = Append(@, FreshCell)]

RECURSIVE DropAll(_, _)
\* Drop of Value / Message: a dropped Sender cancels its channel, a dropped
\* Receiver closes it and destroys a message still in the slot.
DropAll(s, values) ==
    IF values = <<>> THEN s
    ELSE LET v == Head(values)
             cell == s.chan[v.ch]
         IN IF v.side = "Sender"
            THEN DropAll([s EXCEPT !.chan[v.ch].tx = "dropped"], Tail(values))
            ELSE DropAll([s EXCEPT !.chan[v.ch].rx = "dropped",
                                   !.chan[v.ch].data = NoMsg],
                         ValuesOf(cell.data) \o Tail(values))

\* oneshot::Sender::send: fails, dropping the message, when the Receiver is gone
TxSend(s, c, message) ==
    IF s.chan[c].rx = "dropped"
    THEN [ok |-> FALSE,
          s |-> DropAll([s EXCEPT !.chan[c].tx = "used"], ValuesOf(message))]
    ELSE [ok |-> TRUE,
          s |-> [s EXCEPT !.chan[c].tx = "used",
                          !.chan[c].data = message,
                          !.chan[c].sent = Append(@, message)]]

\* a pending rx.await can resume: a message is in the slot, or the Sender is gone
RxReady(s, c) == s.chan[c].data # NoMsg \/ s.chan[c].tx = "dropped"

\* rx.await: Ok(message), or Err(Canceled) when the Sender was dropped unsent
RxAwait(s, c) ==
    LET message == s.chan[c].data
    IN IF message # NoMsg
       THEN [ok |-> TRUE, message |-> message,
             s |-> [s EXCEPT !.chan[c].rx = "used",
                             !.chan[c].data = NoMsg,
                             !.chan[c].rcvd = Append(@, message)]]
       ELSE [ok |-> FALSE, message |-> NoMsg,
             s |-> [s EXCEPT !.chan[c].rx = "used"]]

(***************************************************************************)
(* Process, Command, Expression (super::process).  Rest stands for the     *)
(* part of a process that lies beyond the run examined: a task that        *)
(* reaches it takes no further step.                                       *)
(***************************************************************************)
Let(name, expression, then) ==
    [node |-> "Let", name |-> name, value |-> expression, then |-> then]
Do(name, command) == [node |-> "Do", name |-> name, command |-> command]
Telltypes(then) == [node |-> "Telltypes", then |-> then]
Rest == [node |-> "Rest"]

CmdLink(expression) == [cmd |-> "Link", expression |-> expression]
CmdSend(argument, then) == [cmd |-> "Send", argument |-> argument, then |-> then]
CmdReceive(parameter, then) == [cmd |-> "Receive", parameter |-> parameter, then |-> then]
CmdChoose(chosen, then) == [cmd |-> "Choose", chosen |-> chosen, then |-> then]
CmdMatch(choices, processes) ==
    [cmd |-> "Match", choices |-> choices, processes |-> processes]
CmdBreak == [cmd |-> "Break"]
CmdContinue(then) == [cmd |-> "Continue", then |-> then]
CmdBegin(point, body) == [cmd |-> "Begin", point |-> point, body |-> body]
CmdLoop(point) == [cmd |-> "Loop", point |-> point]
CmdSendType(then) == [cmd |-> "SendType", then |-> then]

Reference(name) == [expr |-> "Reference", name |-> name]
Fork(captures, channel, process) ==
    [expr |-> "Fork", captures |-> captures, channel |-> channel, process |-> process]

\* `globals`: the definitions a Reference falls back to
GlobalNames == {"g"}
Globals == [n \in GlobalNames |-> Fork({}, "c", Do("c", CmdBreak))]

(***************************************************************************)
(* Context: one per task.                                                  *)
(*   st         ready (at the head of the loop of run), await (inside a    *)
(*              primitive, on frame.rx), done (run returned Ok), failed    *)
(*              (run returned Err), panicked (an expect failed)            *)
(*   variables  IndexMap<Name, Value>, in insertion order                  *)
(*   loop_points IndexMap<Option<Name>, (Name, Process)>                   *)
(*   frame      the locals of the primitive the task is suspended in       *)
(*   process    current_process                                            *)
(*   result     the Err run returned, or the expect that failed            *)
(*   thrown     the endpoints the task gave to Context::throw              *)
(*   lost       the endpoints the task dropped when run returned Err       *)
(*   last       the primitive the task ran last: its object, its argument  *)
(*              or result, the object it returned                          *)
(***************************************************************************)
NoPoint == [name |-> "", body |-> Rest]
NoFrame ==
    [prim |-> "none", rx |-> 0, name |-> "", argument |-> NoValue, chosen |-> "",
     choices |-> <<>>, parameter |-> "", other |-> NoValue, message1 |-> NoMsg,
     then |-> Rest, processes |-> <<>>, prev |-> 0]
NoLog ==
    [op |-> "none", obj |-> NoValue, argument |-> NoValue, label |-> "",
     choices |-> <<>>, processes |-> <<>>, ret |-> NoValue, branch |-> 0,
     then |-> Rest, out |-> 0, done |-> FALSE]

NoLoopPoints == [p \in Points |-> NoPoint]

\* Context::new / Context::split: no variables, the given loop points
NewContext(loop_points, process) ==
    [st |-> "ready", variables |-> <<>>, loop_points |-> loop_points,
     frame |-> NoFrame, process |-> process, result |-> NoError,
     thrown |-> {}, lost |-> {}, last |-> NoLog]

Binding(name, value) == [name |-> name, value |-> value]

HasVariable(s, t, name) ==
    \E i \in 1..Len(s.tasks[t].variables) : s.tasks[t].variables[i].name = name

ValueOf(s, t, name) ==
    LET vs == s.tasks[t].variables
    IN vs[CHOOSE i \in 1..Len(vs) : vs[i].name = name].value

\* IndexMap::shift_remove
ShiftRemove(variables, name) ==
    SelectSeq(variables, LAMBDA b : b.name # name)

\* Context::obligations
Obligations(s, t) ==
    [i \in 1..Len(s.tasks[t].variables) |-> s.tasks[t].variables[i].name]

ValuesIn(variables) == [i \in 1..Len(variables) |-> variables[i].value]

\* the values of a function frame that are dropped when it returns Err
Leak(s, t, values) ==
    DropAll([s EXCEPT !.tasks[t].lost = @ \cup SeqToSet(values)], values)

\* Context::throw: every variable and every given value goes to a drain task
Throw(s, t, values, error) ==
    LET pending == ValuesIn(s.tasks[t].variables) \o values
    IN [s EXCEPT !.tasks[t].variables = <<>>,
                 !.tasks[t].thrown = @ \cup SeqToSet(pending),
                 !.drains = IF pending = <<>> THEN @
                            ELSE @ \cup {[pending |-> pending, error |-> error]}]

\* a get_variable that reads the value and leaves it in the map
GetVariableKeeping(s, t, name) == s

\* Context::get_variable
GetVariable(s, t, name) ==
    [s EXCEPT !.tasks[t].variables = ShiftRemove(@, name)]

\* Context::put
Put(s, t, name, value) ==
    IF HasVariable(s, t, name)
    THEN LET old == ValueOf(s, t, name)
             s1 == GetVariable(s, t, name)
             s2 == Throw(s1, t, <<old>>, ShadowedObligation(name))
         IN [ok |-> FALSE, s |-> Leak(s2, t, <<value>>),
             error |-> ShadowedObligation(name)]
    ELSE [ok |-> TRUE,
          s |-> [s EXCEPT !.tasks[t].variables = Append(@, Binding(name, value))],
          error |-> NoError]

\* Context::capture into a fresh context: the captured variables the task holds move
CapturedVariables(s, t, captures) ==
    SelectSeq(s.tasks[t].variables, LAMBDA b : b.name \in captures)

\* a fork whose child gets copies of the captured variables, which the
\* parent keeps
EvalForkCopying(s, t, fork) ==
    LET captures == fork.captures
        channel == fork.channel
        moved == CapturedVariables(s, t, captures)
        kept == s.tasks[t].variables
        s1 == [s EXCEPT !.tasks[t].variables = kept]
        c == NextId(s1)
        s2 == Channel(s1)
        shadowed == \E i \in 1..Len(moved) : moved[i].name = channel
    IN IF shadowed
       THEN \* context.put fails: the child context throws its variables, the
            \* two new endpoints are dropped, and evaluate returns Err
            LET old == moved[CHOOSE i \in 1..Len(moved) : moved[i].name = channel].value
                pending == ValuesIn(ShiftRemove(moved, channel)) \o <<old>>
                s3 == [s2 EXCEPT !.tasks[t].thrown = @ \cup SeqToSet(pending),
                                 !.drains = @ \cup
                          {[pending |-> pending, error |-> ShadowedObligation(channel)]}]
            IN [ok |-> FALSE, s |-> Leak(s3, t, <<Sender(c), Receiver(c)>>),
                value |-> NoValue, error |-> ShadowedObligation(channel)]
       ELSE LET child == [NewContext(s.tasks[t].loop_points, fork.process) EXCEPT
                            !.variables = Append(moved, Binding(channel, Sender(c)))]
            IN [ok |-> TRUE, s |-> [s2 EXCEPT !.tasks = Append(@, child)],
                value |-> Receiver(c), error |-> NoError]

\* Expression::Fork of Context::evaluate, for task t
EvalFork(s, t, fork) ==
    LET captures == fork.captures
        channel == fork.channel
        moved == CapturedVariables(s, t, captures)
        kept == SelectSeq(s.tasks[t].variables, LAMBDA b : b.name \notin captures)
        s1 == [s EXCEPT !.tasks[t].variables = kept]
        c == NextId(s1)
        s2 == Channel(s1)
        shadowed == \E i \in 1..Len(moved) : moved[i].name = channel
    IN IF shadowed
       THEN \* context.put fails: the child context throws its variables, the
            \* two new endpoints are dropped, and evaluate returns Err
            LET old == moved[CHOOSE i \in 1..Len(moved) : moved[i].name = channel].value
                pending == ValuesIn(ShiftRemove(moved, channel)) \o <<old>>
                s3 == [s2 EXCEPT !.tasks[t].thrown = @ \cup SeqToSet(pending),
                                 !.drains = @ \cup
                          {[pending |-> pending, error |-> ShadowedObligation(channel)]}]
            IN [ok |-> FALSE, s |-> Leak(s3, t, <<Sender(c), Receiver(c)>>),
                value |-> NoValue, error |-> ShadowedObligation(channel)]
       ELSE LET child == [NewContext(s.tasks[t].loop_points, fork.process) EXCEPT
                            !.variables = Append(moved, Binding(channel, Sender(c)))]
            IN [ok |-> TRUE, s |-> [s2 EXCEPT !.tasks = Append(@, child)],
                value |-> Receiver(c), error |-> NoError]

\* Context::get, without the location
Get(s, t, name) ==
    IF HasVariable(s, t, name)
    THEN [ok |-> TRUE, s |-> GetVariable(s, t, name),
          value |-> ValueOf(s, t, name), error |-> NoError]
    ELSE IF name \in GlobalNames
         THEN EvalFork(s, t, Globals[name])
         ELSE [ok |-> FALSE, s |-> Throw(s, t, <<>>, NameNotDefined(name)),
               value |-> NoValue, error |-> NameNotDefined(name)]

\* Context::evaluate
Evaluate(s, t, expression) ==
    IF expression.expr = "Reference"
    THEN Get(s, t, expression.name)
    ELSE EvalFork(s, t, expression)

\* run returns Err(error): the context and the given locals are dropped
ReturnErr(s, t, error, locals) ==
    LET s1 == Leak(s, t, ValuesIn(s.tasks[t].variables) \o locals)
    IN [s1 EXCEPT !.tasks[t].st = "failed",
                  !.tasks[t].variables = <<>>,
                  !.tasks[t].frame = NoFrame,
                  !.tasks[t].result = error]

\* run returns Ok(()): Link and Break end the task
ReturnOk(s, t) ==
    [s EXCEPT !.tasks[t].st = "done",
              !.tasks[t].frame = NoFrame,
              !.tasks[t].last.done = TRUE]

\* expect("sender dropped") on rx.await and expect("receiver dropped") on tx.send
SenderDropped(c) == [kind |-> "sender dropped", ch |-> c]
ReceiverDropped(c) == [kind |-> "receiver dropped", ch |-> c]

\* an expect fails: the task unwinds, dropping its context and its locals
Panic(s, t, locals, expect) ==
    LET s1 == DropAll(s, ValuesIn(s.tasks[t].variables) \o locals)
    IN [s1 EXCEPT !.tasks[t].st = "panicked",
                  !.tasks[t].variables = <<>>,
                  !.tasks[t].frame = NoFrame,
                  !.tasks[t].result = expect]

\* current_process = process: the loop of run goes on
Proceed(s, t, process) ==
    [s EXCEPT !.tasks[t].st = "ready",
              !.tasks[t].frame = NoFrame,
              !.tasks[t].process = process]

\* the task suspends on frame.rx
Suspend(s, t, frame) ==
    [s EXCEPT !.tasks[t].st = "await", !.tasks[t].frame = frame]

(***************************************************************************)
(* The interaction primitives.  Each returns the state the task is left    *)
(* in: suspended on a receiver, proceeding, returned, or panicked.         *)
(***************************************************************************)
\* the primitive task t starts on `object` is recorded in `last`
Begun(s, t, log) == [s EXCEPT !.tasks[t].last = log]

\* the channel that carried the message of the task's previous primitive, when
\* that primitive returned `object` (0 otherwise)
Prev(t, object) ==
    IF tasks[t].last.done /\ tasks[t].last.ret = object
    THEN tasks[t].last.out ELSE 0

\* tx.send(message) by a primitive whose session sent its previous message on `prev`
SendAfter(s, c, message, prev) ==
    LET r == TxSend(s, c, message)
    IN IF r.ok THEN [r EXCEPT !.s.chan[c].after = prev] ELSE r

\* Context::swap that hands out the sender it was given instead of a fresh pair
SwapReusing(s, request, tx, prev) ==
    LET r == SendAfter(s, tx, MsgSwap(request, tx), prev)
    IN [ok |-> r.ok, s |-> r.s, rx |-> tx]

\* Context::swap
Swap(s, request, tx, prev) ==
    LET c == NextId(s)
        r == SendAfter(Channel(s), tx, MsgSwap(request, c), prev)
    IN [ok |-> r.ok, s |-> r.s, rx |-> c]

\* Context::invalid_message_and_request
InvalidMessageAndRequest(s, t, message, request) ==
    LET r == IntoOperationAndValues(message)
        error == IF r.ok
                 THEN IncompatibleOperations(r.op, IntoOperation(request))
                 ELSE r.error
    IN [s |-> Throw(s, t, r.values, error), error |-> error]

\* Context::invalid_message_and_message
InvalidMessageAndMessage(s, t, message1, message2) ==
    LET r1 == IntoOperationAndValues(message1)
        r2 == IntoOperationAndValues(message2)
        error == CASE ~r1.ok /\ ~r2.ok -> Multiple(r1.error, r2.error)
                   [] ~r1.ok /\ r2.ok -> r1.error
                   [] r1.ok /\ ~r2.ok -> r2.error
                   [] OTHER -> IncompatibleOperations(r1.op, r2.op)
    IN [s |-> Throw(s, t, r1.values \o r2.values, error), error |-> error]

\* a cannot_have_obligations that lets every context through
CannotHaveObligationsLax(s, t, values) ==
    [ok |-> TRUE, s |-> s, error |-> NoError]

\* Context::cannot_have_obligations
CannotHaveObligations(s, t, values) ==
    IF Len(s.tasks[t].variables) > 0
    THEN LET error == UnfulfilledObligations(Obligations(s, t))
         IN [ok |-> FALSE, s |-> Throw(s, t, values, error), error |-> error]
    ELSE [ok |-> TRUE, s |-> s, error |-> NoError]

\* the end of an iteration of run:
\* self.put(loc, object_name, object)?; current_process = process
PutObject(s, t, name, object, then) ==
    LET p == Put(s, t, name, object)
    IN IF p.ok THEN Proceed(p.s, t, then)
       ELSE ReturnErr(p.s, t, p.error, <<>>)

\* a send_to that returns the sender of another channel than the one whose
\* receiver it sent
SendToOnCrossed(s, t, tx, argument, prev) ==
    LET c == NextId(s)
        r == SendAfter(Channel(Channel(s)), tx, MsgSend(argument, c), prev)
    IN [ok |-> r.ok, tx |-> tx,
        s |-> [r.s EXCEPT !.tasks[t].last.out = tx],
        object |-> Sender(c + 1)]

\* Context::send_to, from the send on tx
SendToOn(s, t, tx, argument, prev) ==
    LET c == NextId(s)
        r == SendAfter(Channel(s), tx, MsgSend(argument, c), prev)
    IN [ok |-> r.ok, tx |-> tx,
        s |-> [r.s EXCEPT !.tasks[t].last.out = tx],
        object |-> Sender(c)]

\* a choose_in that returns the sender it sent on
ChooseInOnStale(s, t, tx, chosen, prev) ==
    LET r == SendAfter(Channel(s), tx, MsgChoose(chosen, NextId(s)), prev)
    IN [ok |-> r.ok, tx |-> tx,
        s |-> [r.s EXCEPT !.tasks[t].last.out = tx],
        object |-> Sender(tx)]

\* Context::choose_in, from the send on tx
ChooseInOn(s, t, tx, chosen, prev) ==
    LET c == NextId(s)
        r == SendAfter(Channel(s), tx, MsgChoose(chosen, c), prev)
    IN [ok |-> r.ok, tx |-> tx,
        s |-> [r.s EXCEPT !.tasks[t].last.out = tx],
        object |-> Sender(c)]

\* the primitive returned `object`: Command::Send and Command::Choose put it
\* back under the name of the object and go on with `then`
Returned(r, t, name, then) ==
    IF ~r.ok THEN Panic(r.s, t, <<r.object>>, ReceiverDropped(r.tx))
    ELSE PutObject([r.s EXCEPT !.tasks[t].last.ret = r.object,
                               !.tasks[t].last.done = TRUE],
                   t, name, r.object, then)

\* Context::send_to
SendTo(s, t, object, name, argument, then, prev) ==
    IF object.side = "Receiver"
    THEN Suspend(s, t, [NoFrame EXCEPT !.prim = "send_to", !.rx = object.ch,
                                       !.name = name, !.argument = argument,
                                       !.then = then, !.prev = prev])
    ELSE Returned(SendToOn(s, t, object.ch, argument, prev), t, name, then)

\* Context::choose_in
ChooseIn(s, t, object, name, chosen, then, prev) ==
    IF object.side = "Receiver"
    THEN Suspend(s, t, [NoFrame EXCEPT !.prim = "choose_in", !.rx = object.ch,
                                       !.name = name, !.chosen = chosen,
                                       !.then = then, !.prev = prev])
    ELSE Returned(ChooseInOn(s, t, object.ch, chosen, prev), t, name, then)

\* Context::break_to, from the send on tx
BreakToOn(s, t, tx, prev) ==
    LET r == SendAfter(s, tx, MsgBreak, prev)
    IN IF ~r.ok THEN Panic(r.s, t, <<>>, ReceiverDropped(tx))
       ELSE ReturnOk([r.s EXCEPT !.tasks[t].last.out = tx], t)

\* Context::break_to
BreakTo(s, t, object, prev) ==
    LET o == CannotHaveObligations(s, t, <<object>>)
    IN IF ~o.ok THEN ReturnErr(o.s, t, o.error, <<>>)
       ELSE IF object.side = "Receiver"
            THEN Suspend(s, t, [NoFrame EXCEPT !.prim = "break_to",
                                               !.rx = object.ch, !.prev = prev])
            ELSE BreakToOn(s, t, object.ch, prev)

\* the head of receive_from, either_of and continue_from: the receiver to await
\* is the object, or the one a swap of `request` returns
AwaitOrSwap(s, t, object, request, frame) ==
    IF object.side = "Receiver"
    THEN Suspend(s, t, [frame EXCEPT !.rx = object.ch])
    ELSE LET w == Swap(s, request, object.ch, frame.prev)
         IN IF ~w.ok THEN Panic(w.s, t, <<Receiver(w.rx)>>, ReceiverDropped(object.ch))
            ELSE Suspend([w.s EXCEPT !.tasks[t].last.out = object.ch],
                         t, [frame EXCEPT !.rx = w.rx, !.prev = object.ch])

\* Context::receive_from
ReceiveFrom(s, t, object, name, parameter, then, prev) ==
    AwaitOrSwap(s, t, object, ReqReceive,
                [NoFrame EXCEPT !.prim = "receive_from", !.name = name,
                                !.parameter = parameter, !.then = then,
                                !.prev = prev])

\* Context::either_of
EitherOf(s, t, object, name, choices, processes, prev) ==
    AwaitOrSwap(s, t, object, ReqMatch(choices),
                [NoFrame EXCEPT !.prim = "either_of", !.name = name,
                                !.choices = choices, !.processes = processes,
                                !.prev = prev])

\* Context::continue_from
ContinueFrom(s, t, object, then, prev) ==
    AwaitOrSwap(s, t, object, ReqContinue,
                [NoFrame EXCEPT !.prim = "continue_from", !.then = then,
                                !.prev = prev])

\* Context::link
Link(s, t, left, right, prev) ==
    LET o == CannotHaveObligations(s, t, <<left, right>>)
    IN IF ~o.ok THEN ReturnErr(o.s, t, o.error, <<>>)
       ELSE CASE left.side = "Receiver" /\ right.side = "Receiver" ->
                   Suspend(s, t, [NoFrame EXCEPT !.prim = "link_rr1",
                                                 !.rx = left.ch, !.other = right])
              [] left.side = "Sender" /\ right.side = "Sender" ->
                   LET w == Swap(s, ReqDynamic, left.ch, prev)
                   IN IF ~w.ok
                      THEN Panic(w.s, t, <<Receiver(w.rx), right>>,
                                 ReceiverDropped(left.ch))
                      ELSE Suspend(w.s, t, [NoFrame EXCEPT !.prim = "link_forward",
                                                           !.rx = w.rx, !.other = right])
              [] left.side = "Receiver" /\ right.side = "Sender" ->
                   Suspend(s, t, [NoFrame EXCEPT !.prim = "link_forward",
                                                 !.rx = left.ch, !.other = right])
              [] OTHER ->
                   Suspend(s, t, [NoFrame EXCEPT !.prim = "link_forward",
                                                 !.rx = right.ch, !.other = left])

\* the result of an action becomes the next state, within the bounds
Commit(s) ==
    /\ Len(s.chan) <= MaxChan
    /\ Len(s.tasks) <= MaxTask
    /\ tasks' = s.tasks
    /\ chan' = s.chan
    /\ drains' = s.drains
    /\ checker' = checker

Ready(t) == t \in 1..Len(tasks) /\ tasks[t].st = "ready"

AtDo(t, cmd) ==
    /\ Ready(t)
    /\ tasks[t].process.node = "Do"
    /\ tasks[t].process.command.cmd = cmd

\* let object = self.get(loc, object_name)?
GetObject(t) == Get(Cur, t, tasks[t].process.name)

\* the primitive task t starts on `object`, as `last` records it
Starts(s, t, op, object) ==
    Begun(s, t, [NoLog EXCEPT !.op = op, !.obj = object,
                              !.out = Prev(t, object)])

(***************************************************************************)
(* run: one action per process node                                        *)
(***************************************************************************)
\* Process::Let
RunLet(t) ==
    /\ Ready(t)
    /\ tasks[t].process.node = "Let"
    /\ LET process == tasks[t].process
           e == Evaluate(Cur, t, process.value)
       IN IF ~e.ok
          THEN Commit(ReturnErr(e.s, t, e.error, <<>>))
          ELSE LET p == Put(e.s, t, process.name, e.value)
               IN IF ~p.ok
                  THEN Commit(ReturnErr(p.s, t, p.error, <<>>))
                  ELSE Commit(Proceed(p.s, t, process.then))

\* Process::Do with Command::Link
RunLink(t) ==
    /\ AtDo(t, "Link")
    /\ LET command == tasks[t].process.command
           g == GetObject(t)
       IN IF ~g.ok
          THEN Commit(ReturnErr(g.s, t, g.error, <<>>))
          ELSE LET e == Evaluate(g.s, t, command.expression)
               IN IF ~e.ok
                  THEN Commit(ReturnErr(Throw(e.s, t, <<g.value>>, e.error),
                                        t, e.error, <<>>))
                  ELSE Commit(Link([Starts(e.s, t, "link", g.value)
                                       EXCEPT !.tasks[t].last.argument = e.value],
                                   t, g.value, e.value, Prev(t, g.value)))

\* Process::Do with Command::Send
RunSend(t) ==
    /\ AtDo(t, "Send")
    /\ LET name == tasks[t].process.name
           command == tasks[t].process.command
           g == GetObject(t)
       IN IF ~g.ok
          THEN Commit(ReturnErr(g.s, t, g.error, <<>>))
          ELSE LET e == Evaluate(g.s, t, command.argument)
               IN IF ~e.ok
                  THEN Commit(ReturnErr(Throw(e.s, t, <<g.value>>, e.error),
                                        t, e.error, <<>>))
                  ELSE Commit(SendTo([Starts(e.s, t, "send_to", g.value)
                                         EXCEPT !.tasks[t].last.argument = e.value],
                                     t, g.value, name, e.value, command.then,
                                     Prev(t, g.value)))

\* Process::Do with Command::Receive
RunReceive(t) ==
    /\ AtDo(t, "Receive")
    /\ LET name == tasks[t].process.name
           command == tasks[t].process.command
           g == GetObject(t)
       IN IF ~g.ok
          THEN Commit(ReturnErr(g.s, t, g.error, <<>>))
          ELSE Commit(ReceiveFrom(Starts(g.s, t, "receive_from", g.value),
                                  t, g.value, name, command.parameter,
                                  command.then, Prev(t, g.value)))

\* Process::Do with Command::Choose
RunChoose(t) ==
    /\ AtDo(t, "Choose")
    /\ LET name == tasks[t].process.name
           command == tasks[t].process.command
           g == GetObject(t)
       IN IF ~g.ok
          THEN Commit(ReturnErr(g.s, t, g.error, <<>>))
          ELSE Commit(ChooseIn([Starts(g.s, t, "choose_in", g.value)
                                   EXCEPT !.tasks[t].last.label = command.chosen],
                               t, g.value, name, command.chosen, command.then,
                               Prev(t, g.value)))

\* Process::Do with Command::Match, up to the await of either_of
RunMatch(t) ==
    /\ AtDo(t, "Match")
    /\ LET name == tasks[t].process.name
           command == tasks[t].process.command
           g == GetObject(t)
       IN IF ~g.ok
          THEN Commit(ReturnErr(g.s, t, g.error, <<>>))
          ELSE Commit(EitherOf([Starts(g.s, t, "either_of", g.value)
                                   EXCEPT !.tasks[t].last.choices = command.choices,
                                          !.tasks[t].last.processes = command.processes],
                               t, g.value, name, command.choices, command.processes,
                               Prev(t, g.value)))

\* Process::Do with Command::Break
RunBreak(t) ==
    /\ AtDo(t, "Break")
    /\ LET g == GetObject(t)
       IN IF ~g.ok
          THEN Commit(ReturnErr(g.s, t, g.error, <<>>))
          ELSE Commit(BreakTo(Starts(g.s, t, "break_to", g.value),
                              t, g.value, Prev(t, g.value)))

\* Process::Do with Command::Continue
RunContinue(t) ==
    /\ AtDo(t, "Continue")
    /\ LET command == tasks[t].process.command
           g == GetObject(t)
       IN IF ~g.ok
          THEN Commit(ReturnErr(g.s, t, g.error, <<>>))
          ELSE Commit(ContinueFrom(Starts(g.s, t, "continue_from", g.value),
                                   t, g.value, command.then, Prev(t, g.value)))

\* Process::Do with Command::Begin
RunBegin(t) ==
    /\ AtDo(t, "Begin")
    /\ LET name == tasks[t].process.name
           command == tasks[t].process.command
           g == GetObject(t)
       IN IF ~g.ok
          THEN Commit(ReturnErr(g.s, t, g.error, <<>>))
          ELSE Commit(PutObject([g.s EXCEPT !.tasks[t].loop_points[command.point] =
                                     [name |-> name, body |-> command.body]],
                                t, name, g.value, command.body))

\* a Loop that binds the object under the name it has at the Loop
RunLoopInPlace(t) ==
    /\ AtDo(t, "Loop")
    /\ LET command == tasks[t].process.command
           g == GetObject(t)
           point == tasks[t].loop_points[command.point]
           error == NoSuchLoopPoint(command.point)
       IN IF ~g.ok
          THEN Commit(ReturnErr(g.s, t, g.error, <<>>))
          ELSE IF point = NoPoint
               THEN Commit(ReturnErr(Throw(g.s, t, <<g.value>>, error), t, error, <<>>))
               ELSE Commit(PutObject(g.s, t, tasks[t].process.name, g.value, point.body))

\* Process::Do with Command::Loop
RunLoop(t) ==
    /\ AtDo(t, "Loop")
    /\ LET command == tasks[t].process.command
           g == GetObject(t)
           point == tasks[t].loop_points[command.point]
           error == NoSuchLoopPoint(command.point)
       IN IF ~g.ok
          THEN Commit(ReturnErr(g.s, t, g.error, <<>>))
          ELSE IF point = NoPoint
               THEN Commit(ReturnErr(Throw(g.s, t, <<g.value>>, error), t, error, <<>>))
               ELSE Commit(PutObject(g.s, t, point.name, g.value, point.body))

\* Process::Do with Command::SendType or Command::ReceiveType
RunSendType(t) ==
    /\ AtDo(t, "SendType")
    /\ LET name == tasks[t].process.name
           command == tasks[t].process.command
           g == GetObject(t)
       IN IF ~g.ok
          THEN Commit(ReturnErr(g.s, t, g.error, <<>>))
          ELSE Commit(PutObject(g.s, t, name, g.value, command.then))

\* Process::Telltypes
RunTelltypes(t) ==
    /\ Ready(t)
    /\ tasks[t].process.node = "Telltypes"
    /\ Commit(Proceed(Cur, t, tasks[t].process.then))

(***************************************************************************)
(* The resumption of a pending rx.await.ok().expect("sender dropped")      *)
(***************************************************************************)
Awaiting(t, prim) ==
    /\ t \in 1..Len(tasks)
    /\ tasks[t].st = "await"
    /\ tasks[t].frame.prim = prim
    /\ RxReady(Cur, tasks[t].frame.rx)

\* Context::expect_swap, from the message awaited
ExpectSwap(message, expected_request) ==
    message.kind = "Swap" /\ Matches(message.request, expected_request)

\* Context::expect_swap_choose, from the message awaited
ExpectSwapChoose(message, chosen) ==
    /\ message.kind = "Swap"
    /\ \/ message.request.kind = "Dynamic"
       \/ /\ message.request.kind = "Match"
          /\ \E i \in 1..Len(message.request.choices) :
                message.request.choices[i] = chosen

\* a position that takes the first branch whatever was chosen
PositionFirst(choices, chosen) == 1

\* choices.iter().position(|c| c == &chosen), counted from 1 (0: None)
Position(choices, chosen) ==
    IF \E i \in 1..Len(choices) : choices[i] = chosen
    THEN CHOOSE i \in 1..Len(choices) :
            /\ choices[i] = chosen
            /\ \A j \in 1..(i - 1) : choices[j] # chosen
    ELSE 0

\* send_to on a Receiver: expect_swap(Request::Receive) resumes
WakeSendTo(t) ==
    /\ Awaiting(t, "send_to")
    /\ LET f == tasks[t].frame
           a == RxAwait(Cur, f.rx)
       IN IF ~a.ok
          THEN Commit(Panic(a.s, t, <<f.argument>>, SenderDropped(f.rx)))
          ELSE IF ExpectSwap(a.message, ReqReceive)
               THEN Commit(Returned(SendToOn(a.s, t, a.message.tx, f.argument, f.prev),
                                    t, f.name, f.then))
               ELSE LET i == InvalidMessageAndRequest(a.s, t, a.message, ReqReceive)
                    IN Commit(ReturnErr(i.s, t, i.error, <<f.argument>>))

\* choose_in on a Receiver: expect_swap_choose resumes
WakeChooseIn(t) ==
    /\ Awaiting(t, "choose_in")
    /\ LET f == tasks[t].frame
           a == RxAwait(Cur, f.rx)
       IN IF ~a.ok
          THEN Commit(Panic(a.s, t, <<>>, SenderDropped(f.rx)))
          ELSE IF ExpectSwapChoose(a.message, f.chosen)
               THEN Commit(Returned(ChooseInOn(a.s, t, a.message.tx, f.chosen, f.prev),
                                    t, f.name, f.then))
               ELSE LET i == InvalidMessageAndRequest(a.s, t, a.message,
                                                      ReqMatch(<<f.chosen>>))
                    IN Commit(ReturnErr(i.s, t, i.error, <<>>))

\* break_to on a Receiver: expect_swap(Request::Continue) resumes
WakeBreakTo(t) ==
    /\ Awaiting(t, "break_to")
    /\ LET f == tasks[t].frame
           a == RxAwait(Cur, f.rx)
       IN IF ~a.ok
          THEN Commit(Panic(a.s, t, <<>>, SenderDropped(f.rx)))
          ELSE IF ExpectSwap(a.message, ReqContinue)
               THEN Commit(BreakToOn(a.s, t, a.message.tx, f.prev))
               ELSE LET i == InvalidMessageAndRequest(a.s, t, a.message, ReqContinue)
                    IN Commit(ReturnErr(i.s, t, i.error, <<>>))

\* the arm Message::Swap(Request::Dynamic(_), tx) of receive_from, either_of and
\* continue_from: rx = self.swap(request, tx); continue
Reswap(s, t, request, tx) ==
    LET f == s.tasks[t].frame
        w == Swap(s, request, tx, f.prev)
    IN IF ~w.ok THEN Panic(w.s, t, <<Receiver(w.rx)>>, ReceiverDropped(tx))
       ELSE Suspend([w.s EXCEPT !.tasks[t].last.out = tx],
                    t, [f EXCEPT !.rx = w.rx, !.prev = tx])

IsDynamicSwap(message) ==
    message.kind = "Swap" /\ message.request.kind = "Dynamic"

\* the loop of receive_from resumes, then the two puts of Command::Receive
WakeReceiveFrom(t) ==
    /\ Awaiting(t, "receive_from")
    /\ LET f == tasks[t].frame
           a == RxAwait(Cur, f.rx)
           m == a.message
       IN IF ~a.ok
          THEN Commit(Panic(a.s, t, <<>>, SenderDropped(f.rx)))
          ELSE CASE IsDynamicSwap(m) ->
                      Commit(Reswap(a.s, t, ReqReceive, m.tx))
                 [] m.kind = "Send" ->
                      LET s1 == [a.s EXCEPT !.tasks[t].last.argument = m.value,
                                            !.tasks[t].last.ret = Receiver(m.rx),
                                            !.tasks[t].last.done = TRUE]
                          p1 == Put(s1, t, f.name, Receiver(m.rx))
                      IN IF ~p1.ok
                         THEN Commit(ReturnErr(p1.s, t, p1.error, <<m.value>>))
                         ELSE Commit(PutObject(p1.s, t, f.parameter, m.value, f.then))
                 [] OTHER ->
                      LET i == InvalidMessageAndRequest(a.s, t, m, ReqReceive)
                      IN Commit(ReturnErr(i.s, t, i.error, <<>>))

\* the loop of either_of resumes, then the branch lookup of Command::Match
WakeEitherOf(t) ==
    /\ Awaiting(t, "either_of")
    /\ LET f == tasks[t].frame
           a == RxAwait(Cur, f.rx)
           m == a.message
       IN IF ~a.ok
          THEN Commit(Panic(a.s, t, <<>>, SenderDropped(f.rx)))
          ELSE CASE IsDynamicSwap(m) ->
                      Commit(Reswap(a.s, t, ReqMatch(f.choices), m.tx))
                 [] m.kind = "Choose" ->
                      LET index == Position(f.choices, m.chosen)
                          error == IncompatibleOperations(OpChoose(m.chosen),
                                                          OpMatch(f.choices))
                          then == IF index = 0 THEN Rest ELSE f.processes[index]
                          s1 == [a.s EXCEPT !.tasks[t].last.label = m.chosen,
                                            !.tasks[t].last.ret = Receiver(m.rx),
                                            !.tasks[t].last.branch = index,
                                            !.tasks[t].last.then = then,
                                            !.tasks[t].last.done = (index # 0)]
                      IN IF index = 0
                         THEN Commit(ReturnErr(Throw(s1, t, <<Receiver(m.rx)>>, error),
                                               t, error, <<>>))
                         ELSE Commit(PutObject(s1, t, f.name, Receiver(m.rx), then))
                 [] OTHER ->
                      LET i == InvalidMessageAndRequest(a.s, t, m, ReqMatch(f.choices))
                      IN Commit(ReturnErr(i.s, t, i.error, <<>>))

\* the loop of continue_from resumes
WakeContinueFrom(t) ==
    /\ Awaiting(t, "continue_from")
    /\ LET f == tasks[t].frame
           a == RxAwait(Cur, f.rx)
           m == a.message
       IN IF ~a.ok
          THEN Commit(Panic(a.s, t, <<>>, SenderDropped(f.rx)))
          ELSE CASE IsDynamicSwap(m) ->
                      Commit(Reswap(a.s, t, ReqContinue, m.tx))
                 [] m.kind = "Break" ->
                      Commit(Proceed([a.s EXCEPT !.tasks[t].last.done = TRUE],
                                     t, f.then))
                 [] OTHER ->
                      LET i == InvalidMessageAndRequest(a.s, t, m, ReqContinue)
                      IN Commit(ReturnErr(i.s, t, i.error, <<>>))

\* link of two receivers: rx1.await resumes; rx2 is awaited next
WakeLinkFirst(t) ==
    /\ Awaiting(t, "link_rr1")
    /\ LET f == tasks[t].frame
           a == RxAwait(Cur, f.rx)
       IN IF ~a.ok
          THEN Commit(Panic(a.s, t, <<f.other>>, SenderDropped(f.rx)))
          ELSE Commit(Suspend(a.s, t, [f EXCEPT !.prim = "link_rr2",
                                                !.rx = f.other.ch,
                                                !.other = NoValue,
                                                !.message1 = a.message]))

\* a link that answers a Swap with the Swap itself
BridgeEcho(message1, message2) ==
    IF message1.kind = "Swap"
    THEN [tx |-> message1.tx, message |-> message1]
    ELSE [tx |-> message2.tx, message |-> message2]

\* the arm (Message::Swap(_, tx), message) | (message, Message::Swap(_, tx)) of
\* link: the first of the two messages that is a Swap takes the other one
Bridge(message1, message2) ==
    IF message1.kind = "Swap"
    THEN [tx |-> message1.tx, message |-> message2]
    ELSE [tx |-> message2.tx, message |-> message1]

\* link of two receivers: rx2.await resumes; a Swap takes the other message
WakeLinkSecond(t) ==
    /\ Awaiting(t, "link_rr2")
    /\ LET f == tasks[t].frame
           a == RxAwait(Cur, f.rx)
           m1 == f.message1
           m2 == a.message
       IN IF ~a.ok
          THEN Commit(Panic(a.s, t, ValuesOf(m1), SenderDropped(f.rx)))
          ELSE IF m1.kind = "Swap" \/ m2.kind = "Swap"
               THEN LET b == Bridge(m1, m2)
                        r == TxSend(a.s, b.tx, b.message)
                    IN IF r.ok THEN Commit(ReturnOk(r.s, t))
                       ELSE Commit(Panic(r.s, t, <<>>, ReceiverDropped(b.tx)))
               ELSE LET i == InvalidMessageAndMessage(a.s, t, m1, m2)
                    IN Commit(ReturnErr(i.s, t, i.error, <<>>))

\* link of a sender with a sender (after its swap) or with a receiver: the
\* message awaited is sent on the sender
WakeLinkForward(t) ==
    /\ Awaiting(t, "link_forward")
    /\ LET f == tasks[t].frame
           a == RxAwait(Cur, f.rx)
       IN IF ~a.ok
          THEN Commit(Panic(a.s, t, <<f.other>>, SenderDropped(f.rx)))
          ELSE LET r == TxSend(a.s, f.other.ch, a.message)
               IN IF r.ok THEN Commit(ReturnOk(r.s, t))
                  ELSE Commit(Panic(r.s, t, <<>>, ReceiverDropped(f.other.ch)))

(***************************************************************************)
(* The task Context::throw spawns: it pops `pending` until it is empty.    *)
(***************************************************************************)
Popped(d) == SubSeq(d.pending, 1, Len(d.pending) - 1)

Pending(d, pending, error) ==
    (drains \ {d}) \cup
        (IF pending = <<>> THEN {} ELSE {[pending |-> pending, error |-> error]})

\* Value::Sender(tx) => tx.send(Message::Error(error))
DrainSender(d) ==
    /\ d \in drains
    /\ d.pending[Len(d.pending)].side = "Sender"
    /\ LET r == TxSend(Cur, d.pending[Len(d.pending)].ch, MsgError(d.error))
       IN IF r.ok
          THEN Commit([r.s EXCEPT !.drains = Pending(d, Popped(d), d.error)])
          ELSE Commit([DropAll(r.s, Popped(d)) EXCEPT !.drains = drains \ {d}])

\* Value::Receiver(rx) => the message awaited hands over what it carries
DrainReceiver(d) ==
    /\ d \in drains
    /\ d.pending[Len(d.pending)].side = "Receiver"
    /\ RxReady(Cur, d.pending[Len(d.pending)].ch)
    /\ LET a == RxAwait(Cur, d.pending[Len(d.pending)].ch)
           m == a.message
       IN IF ~a.ok
          THEN Commit([DropAll(a.s, Popped(d)) EXCEPT !.drains = drains \ {d}])
          ELSE CASE m.kind = "Swap" ->
                      Commit([a.s EXCEPT !.drains =
                                Pending(d, Append(Popped(d), Sender(m.tx)), d.error)])
                 [] m.kind = "Send" ->
                      Commit([a.s EXCEPT !.drains =
                                Pending(d, Popped(d) \o <<m.value, Receiver(m.rx)>>,
                                        d.error)])
                 [] m.kind = "Choose" ->
                      Commit([a.s EXCEPT !.drains =
                                Pending(d, Append(Popped(d), Receiver(m.rx)), d.error)])
                 [] m.kind = "Break" ->
                      Commit([a.s EXCEPT !.drains = Pending(d, Popped(d), d.error)])
                 [] OTHER ->
                      Commit([a.s EXCEPT !.drains =
                                Pending(d, Popped(d), Multiple(d.error, m.error))])

(***************************************************************************)
(* Initial states.  A program starts as one task with an empty context     *)
(* (Context::new) running a root process.  A run of forks and sends leaves *)
(* tasks joined two by two by one channel of either direction, each about  *)
(* to run the rest of its process; such states are initial too: a pair of  *)
(* tasks at the two ends of channel 1, and a line of three tasks where the *)
(* middle one holds an end of channel 1 as x and an end of channel 2 as y. *)
(***************************************************************************)
\* fork c { c.break }: a value whose only message is Break
Unit == Fork({}, "c", Do("c", CmdBreak))

\* processes of a task that holds one endpoint, x
EndProcesses ==
    {Do("x", CmdSend(Unit, Do("x", CmdBreak))),
     Do("x", CmdSend(Unit, Do("x", CmdSend(Unit, Rest)))),
     Do("x", CmdReceive("y", Do("y", CmdContinue(Do("x", CmdContinue(Rest)))))),
     Do("x", CmdReceive("y", Do("x", CmdReceive("y", Rest)))),
     Do("x", CmdChoose("a", Do("x", CmdBreak))),
     Do("x", CmdChoose("b", Do("x", CmdSend(Unit, Rest)))),
     Do("x", CmdMatch(<<"a">>, <<Do("x", CmdContinue(Rest))>>)),
     Do("x", CmdMatch(<<"a", "b">>,
                      <<Do("x", CmdContinue(Rest)), Do("x", CmdReceive("y", Rest))>>)),
     Do("x", CmdBreak),
     Do("x", CmdContinue(Rest))}

\* processes of a task that holds two endpoints, x and y
MiddleProcesses ==
    {Do("x", CmdLink(Reference("y"))),
     Do("y", CmdLink(Reference("x"))),
     Do("x", CmdSend(Reference("y"), Do("x", CmdBreak))),
     Do("x", CmdReceive("z", Do("z", CmdLink(Reference("y"))))),
     Do("x", CmdChoose("a", Do("x", CmdLink(Reference("y"))))),
     Do("x", CmdLoop("l")),
     Do("x", CmdBreak),
     Let("y", Reference("x"), Rest)}

\* let y = x; let z = !; y.loop :l
Relooping == Let("y", Reference("x"), Let("z", Unit, Do("y", CmdLoop("l"))))

\* processes of the task a program starts as
RootProcesses ==
    {Let("x", Fork({}, "c", Do("c", CmdSend(Unit, Do("c", CmdBreak)))),
         Do("x", CmdReceive("y", Do("y", CmdContinue(Do("x", CmdContinue(Rest))))))),
     Let("x", Unit,
         Let("y", Fork({"x", "z"}, "c", Do("c", CmdSend(Reference("x"), Do("c", CmdBreak)))),
             Do("y", CmdReceive("x", Do("x", CmdContinue(Do("y", CmdContinue(Rest)))))))),
     Let("z", Unit, Let("x", Unit, Let("y", Fork({"x"}, "x", Rest), Rest))),
     Let("x", Fork({}, "c", Do("c", CmdBegin("l", Do("c", CmdChoose("a", Do("c", CmdLoop("l"))))))),
         Do("x", CmdBegin("None",
                 Do("x", CmdMatch(<<"a">>, <<Do("x", CmdLoop("None"))>>))))),
     Let("x", Unit, Do("x", CmdBegin("l", Relooping))),
     Telltypes(Let("x", Reference("g"),
                   Do("x", CmdSendType(Do("x", CmdContinue(Do("g", CmdContinue(Rest)))))))),
     Do("q", CmdBreak)}

Root(process) == NewContext(NoLoopPoints, process)

Holding(variables, process) == [Root(process) EXCEPT !.variables = variables]

\* the two ends of channel c, given to the left and the right neighbour
LeftEnd(c, dir) == IF dir = "right" THEN Sender(c) ELSE Receiver(c)
RightEnd(c, dir) == IF dir = "right" THEN Receiver(c) ELSE Sender(c)

Directions == {"left", "right"}

Pair(d1, p, q) ==
    <<Holding(<<Binding("x", LeftEnd(1, d1))>>, p),
      Holding(<<Binding("x", RightEnd(1, d1))>>, q)>>

Line(d1, d2, p, m, q) ==
    <<Holding(<<Binding("x", LeftEnd(1, d1))>>, p),
      Holding(<<Binding("x", RightEnd(1, d1)), Binding("y", LeftEnd(2, d2))>>, m),
      Holding(<<Binding("x", RightEnd(2, d2))>>, q)>>

Init ==
    /\ drains = {}
    /\ checker = NotChecking
    /\ \/ /\ \E r \in RootProcesses : tasks = <<Root(r)>>
          /\ chan = <<>>
       \/ /\ \E d1 \in Directions, p \in EndProcesses, q \in EndProcesses :
                tasks = Pair(d1, p, q)
          /\ chan = <<FreshCell>>
       \/ /\ \E d1 \in Directions, d2 \in Directions,
                p \in EndProcesses, m \in MiddleProcesses, q \in EndProcesses :
                tasks = Line(d1, d2, p, m, q)
          /\ chan = <<FreshCell, FreshCell>>

Next ==
    \/ \E t \in 1..MaxTask :
        \/ RunLet(t)
        \/ RunLink(t)
        \/ RunSend(t)
        \/ RunReceive(t)
        \/ RunChoose(t)
        \/ RunMatch(t)
        \/ RunBreak(t)
        \/ RunContinue(t)
        \/ RunBegin(t)
        \/ RunLoop(t)
        \/ RunSendType(t)
        \/ RunTelltypes(t)
        \/ WakeSendTo(t)
        \/ WakeChooseIn(t)
        \/ WakeBreakTo(t)
        \/ WakeReceiveFrom(t)
        \/ WakeEitherOf(t)
        \/ WakeContinueFrom(t)
        \/ WakeLinkFirst(t)
        \/ WakeLinkSecond(t)
        \/ WakeLinkForward(t)
    \/ \E d \in drains : DrainSender(d) \/ DrainReceiver(d)

Spec == Init /\ [][Next]_vars

(***************************************************************************)
(* Properties                                                              *)
(***************************************************************************)
Tasks == 1..Len(tasks)
Channels == 1..Len(chan)

\* C1: when run ends with a runtime error, every endpoint the task owned (its
\* variables, the object of the failing command, an argument or a received
\* value not yet bound) went to the drain task: the task dropped none.
C1_FailedTaskDrainsAll ==
    \A t \in Tasks : tasks[t].st = "failed" => tasks[t].lost = {}

\* the endpoints task t owned when run returned its error
OwnedAtFailure(t) == tasks[t].thrown \cup tasks[t].lost

\* C2, as the claim states it for finite runs: a sender end that a failed task
\* held is used to send the Error, so the task waiting on the matching
\* receiver is never resumed by the cancellation of a dropped sender.
C2_WaiterOfFailedTaskGetsError ==
    \A w \in Tasks :
        (tasks[w].st = "panicked" /\ tasks[w].result.kind = "sender dropped")
            => ~ \E t \in Tasks :
                    /\ tasks[t].st = "failed"
                    /\ Sender(tasks[w].result.ch) \in OwnedAtFailure(t)

\* C3: a one-shot channel carries at most one message, and awaiting its
\* receiver yields exactly the message that was sent.
C3_OneShot ==
    \A c \in Channels :
        /\ Len(chan[c].sent) <= 1
        /\ Len(chan[c].rcvd) <= 1
        /\ chan[c].rcvd # <<>> => chan[c].rcvd = chan[c].sent

\* a channel delivered a Send that carried an endpoint
C3_Witness ==
    \E c \in Channels :
        /\ chan[c].rcvd # <<>>
        /\ chan[c].rcvd[1].kind = "Send"
        /\ chan[c].rcvd[1].value.side = "Sender"

\* the places that own an endpoint: <<owner, position, value>>
InVariables ==
    UNION {{<<t, i, tasks[t].variables[i].value>> :
                i \in 1..Len(tasks[t].variables)} : t \in Tasks}
InPrimitive ==
    UNION {IF tasks[t].st # "await" THEN {}
           ELSE LET f == tasks[t].frame
                    held == <<Receiver(f.rx), f.argument, f.other>>
                                \o ValuesOf(f.message1)
                IN {<<t, i, held[i]>> : i \in 1..Len(held)} : t \in Tasks}
InFlight ==
    UNION {{<<c, i, ValuesOf(chan[c].data)[i]>> :
                i \in 1..Len(ValuesOf(chan[c].data))} : c \in Channels}
InDrain ==
    UNION {{<<d, i, d.pending[i]>> : i \in 1..Len(d.pending)} : d \in drains}

Owners(v) ==
    Cardinality({p \in InVariables : p[3] = v})
        + Cardinality({p \in InPrimitive : p[3] = v})
        + Cardinality({p \in InFlight : p[3] = v})
        + Cardinality({p \in InDrain : p[3] = v})

\* C4: every endpoint that exists has exactly one owner (a task's variable
\* map, a running primitive, a message in flight, a drain worklist), and an
\* endpoint that was used or dropped has none.
C4_OneOwner ==
    \A c \in Channels :
        /\ Owners(Sender(c)) = IF chan[c].tx = "live" THEN 1 ELSE 0
        /\ Owners(Receiver(c)) = IF chan[c].rx = "live" THEN 1 ELSE 0

\* endpoints are owned by a variable map, a primitive, a message and a drain
C4_Witness ==
    /\ \E p \in InVariables : TRUE
    /\ \E p \in InPrimitive : p[3] # NoValue /\ p[2] > 1
    /\ \E p \in InFlight : TRUE
    /\ \E p \in InDrain : TRUE

\* tasks p and q ran the primitives `op1` and `op2` to their end on the two
\* ends of one channel
Exchanged(p, op1, q, op2) ==
    /\ tasks[p].last.op = op1
    /\ tasks[q].last.op = op2
    /\ tasks[p].last.done
    /\ tasks[q].last.done
    /\ tasks[p].last.obj.ch = tasks[q].last.obj.ch
    /\ tasks[p].last.obj.side # tasks[q].last.obj.side

\* C5: after send_to(v) against receive_from on the two ends of a channel,
\* the receiver has bound exactly v, and the sender task holds the Sender and
\* the receiver task the Receiver of one channel that is neither the object's
\* nor the one that carried the message, whichever task held the sender end.
C5_SendReceive ==
    \A p, q \in Tasks :
        Exchanged(p, "send_to", q, "receive_from")
            => LET a == tasks[p].last
                   b == tasks[q].last
               IN /\ b.argument = a.argument
                  /\ a.argument # NoValue
                  /\ a.ret.side = "Sender"
                  /\ b.ret = Receiver(a.ret.ch)
                  /\ a.ret.ch \notin {a.obj.ch, a.out}
                  /\ chan[a.out].rcvd = <<MsgSend(a.argument, a.ret.ch)>>

\* the exchange completed with the sending task on the receiver end
C5_Witness ==
    \E p, q \in Tasks :
        /\ Exchanged(p, "send_to", q, "receive_from")
        /\ tasks[p].last.obj.side = "Receiver"
        /\ tasks[p].last.argument.side = "Sender"

Dual(v) == [v EXCEPT !.side = IF @ = "Sender" THEN "Receiver" ELSE "Sender"]

\* task l linked two endpoints whose other ends tasks p and q operate on (a
\* link that cannot_have_obligations refused links nothing)
Linked(l, p, q) ==
    /\ p # q
    /\ tasks[l].last.op = "link"
    /\ tasks[l].result.kind # "UnfulfilledObligations"
    /\ \/ /\ tasks[p].last.obj = Dual(tasks[l].last.obj)
          /\ tasks[q].last.obj = Dual(tasks[l].last.argument)
       \/ /\ tasks[q].last.obj = Dual(tasks[l].last.obj)
          /\ tasks[p].last.obj = Dual(tasks[l].last.argument)

Sound(t) == tasks[t].st \notin {"failed", "panicked"}

\* C6: through link(a, b), in each combination of endpoint kinds and in each
\* order of arrival, the Send, Choose (signal) or Break of the peer of one
\* endpoint reaches the peer of the other unchanged: the same value, the same
\* label, the same continuation channel, and no task fails on the way.
C6_LinkForwards ==
    \A l, p, q \in Tasks :
        Linked(l, p, q)
            => LET a == tasks[p].last
                   b == tasks[q].last
               IN /\ (a.op = "send_to" /\ b.op = "receive_from")
                        => /\ Sound(l) /\ Sound(p) /\ Sound(q)
                           /\ b.done => /\ a.done
                                        /\ b.argument = a.argument
                                        /\ a.ret = Sender(b.ret.ch)
                  /\ (a.op = "choose_in" /\ b.op = "either_of"
                            /\ a.label \in SeqToSet(b.choices))
                        => /\ Sound(l) /\ Sound(p) /\ Sound(q)
                           /\ b.done => /\ a.done
                                        /\ b.label = a.label
                                        /\ a.ret = Sender(b.ret.ch)
                  /\ (a.op = "break_to" /\ b.op = "continue_from")
                        => /\ Sound(l) /\ Sound(p) /\ Sound(q)
                           /\ b.done => a.done

\* a value went through a link of endpoints of the kinds `left` and `right`
Forwarded(left, right) ==
    \E l, p, q \in Tasks :
        /\ Linked(l, p, q)
        /\ tasks[l].last.obj.side = left
        /\ tasks[l].last.argument.side = right
        /\ tasks[p].last.op = "send_to"
        /\ tasks[q].last.op = "receive_from"
        /\ tasks[q].last.done
        /\ tasks[l].st = "done"

\* a Send went through a link of two senders
C6_Witness == Forwarded("Sender", "Sender")

\* the request a primitive that waits for a positive message swaps with
OwnRequest(f) ==
    CASE f.prim = "receive_from" -> ReqReceive
      [] f.prim = "either_of" -> ReqMatch(f.choices)
      [] OTHER -> ReqContinue

\* the message a primitive that waits for a Swap sends on the sender it gets
Positive(f) ==
    CASE f.prim = "send_to" -> "Send"
      [] f.prim = "choose_in" -> "Choose"
      [] OTHER -> "Break"

\* task t, suspended in a primitive, takes Swap(Dynamic, tx) from its receiver
TakesDynamic(t) ==
    /\ tasks[t].st = "await"
    /\ IsDynamicSwap(chan[tasks[t].frame.rx].data)
    /\ chan'[tasks[t].frame.rx].rx = "used"

\* C7: a primitive that takes Swap(Dynamic, tx) does not fail: receive_from,
\* either_of (case) and continue_from send Swap(their own request) with a new
\* sender on tx and wait on the new receiver; send_to, choose_in (signal) and
\* break_to on a receiver take tx as the answer to their request and send
\* their message on it.
C7_DynamicSwap ==
    [][\A t \in Tasks :
          TakesDynamic(t)
              => LET f == tasks[t].frame
                     tx == chan[f.rx].data.tx
                     new == Len(chan) + 1
                 IN /\ f.prim \in {"receive_from", "either_of", "continue_from"}
                          => /\ tasks'[t].st = "await"
                             /\ tasks'[t].frame.prim = f.prim
                             /\ tasks'[t].frame.rx = new
                             /\ Len(chan') = new
                             /\ chan'[tx].sent = <<MsgSwap(OwnRequest(f), new)>>
                    /\ f.prim \in {"send_to", "choose_in", "break_to"}
                          => /\ tasks'[t].st \in {"ready", "done"}
                             /\ Len(chan'[tx].sent) = 1
                             /\ chan'[tx].sent[1].kind = Positive(f)]_vars

\* a receive_from took Swap(Dynamic, tx), swapped Receive on tx and waits again
C7_Witness ==
    \E t \in Tasks, c \in Channels :
        /\ tasks[t].st = "await"
        /\ tasks[t].frame.prim = "receive_from"
        /\ chan[c].rcvd # <<>>
        /\ IsDynamicSwap(chan[c].rcvd[1])
        /\ chan[c].rcvd[1].tx = tasks[t].frame.prev
        /\ chan[tasks[t].frame.prev].sent = <<MsgSwap(ReqReceive, tasks[t].frame.rx)>>

\* task p chooses (signal_in) and task q matches (case_of) on the two ends of
\* one channel
ChoiceBetween(p, q) ==
    /\ tasks[p].last.op = "choose_in"
    /\ tasks[q].last.op = "either_of"
    /\ tasks[p].last.obj.ch = tasks[q].last.obj.ch
    /\ tasks[p].last.obj.side # tasks[q].last.obj.side

\* C8: choose_in (signal) of label l against either_of (case) over the labels
\* L, whichever task holds the sender end: when l is in L neither task fails
\* and the case side goes on with the branch of l; when l is not in L the
\* case side runs no branch and ends with IncompatibleOperations.
C8_SignalCase ==
    \A p, q \in Tasks :
        ChoiceBetween(p, q)
            => LET a == tasks[p].last
                   b == tasks[q].last
               IN IF a.label \in SeqToSet(b.choices)
                  THEN /\ Sound(p)
                       /\ Sound(q)
                       /\ b.done => /\ b.label = a.label
                                    /\ b.choices[b.branch] = a.label
                                    /\ b.then = b.processes[b.branch]
                  ELSE /\ ~b.done
                       /\ tasks[q].st \in {"await", "failed"}
                       /\ tasks[p].st # "panicked"
                       /\ tasks[q].st = "failed"
                            => tasks[q].result.kind = "IncompatibleOperations"

\* a label outside the case ended the case side, the chooser on the receiver end
C8_Witness ==
    \E p, q \in Tasks :
        /\ ChoiceBetween(p, q)
        /\ tasks[p].last.label \notin SeqToSet(tasks[q].last.choices)
        /\ tasks[p].last.obj.side = "Receiver"
        /\ tasks[q].st = "failed"

\* C9: when a task performs A and then B on one object, the peer of the
\* session has received the message (or request) of A, as A sent it, in every
\* state in which it has received that of B.  chan[c].after is the channel
\* that carried the message of the operation before the one that sent on c.
C9_ProgramOrder ==
    \A c \in Channels :
        (chan[c].rcvd # <<>> /\ chan[c].after # 0)
            => /\ chan[chan[c].after].rcvd # <<>>
               /\ chan[chan[c].after].rcvd[1] = chan[chan[c].after].sent[1]

\* the peer received the Break a task sent after its Send
C9_Witness ==
    \E c \in Channels :
        /\ chan[c].after # 0
        /\ chan[c].rcvd = <<MsgBreak>>
        /\ chan[chan[c].after].rcvd[1].kind = "Send"

\* task t, suspended on a receiver whose sender was dropped unsent, resumes
SeesDrop(t) ==
    /\ tasks[t].st = "await"
    /\ chan[tasks[t].frame.rx].tx = "dropped"
    /\ chan[tasks[t].frame.rx].data = NoMsg
    /\ chan'[tasks[t].frame.rx].rx = "used"

\* C10: a task that resumes on the receiver of a sender dropped unsent ends
\* with a runtime error, every endpoint it held handed to the drain that sends
\* Error(ChannelBroken) on it: it does not panic and drops no endpoint.
C10_DropIsRuntimeError ==
    [][\A t \in Tasks :
          SeesDrop(t) => /\ tasks'[t].st = "failed"
                         /\ tasks'[t].result.kind = "ChannelBroken"
                         /\ tasks'[t].lost = {}]_vars

\* the variables task t is left with when its Break or its Link of a variable
\* has taken the object (and the linked variable) out of the context
LeftOver(t) ==
    LET process == tasks[t].process
        rest == ShiftRemove(tasks[t].variables, process.name)
    IN IF process.command.cmd = "Link"
       THEN ShiftRemove(rest, process.command.expression.name)
       ELSE rest

\* task t runs a Break, or a Link of a variable, that resolves its names
EndsWithObligations(t) ==
    /\ AtDo(t, "Break") \/ AtDo(t, "Link")
    /\ tasks'[t] # tasks[t]
    /\ HasVariable(Cur, t, tasks[t].process.name)
    /\ AtDo(t, "Link")
          => /\ tasks[t].process.command.expression.expr = "Reference"
             /\ tasks[t].process.command.expression.name # tasks[t].process.name
             /\ HasVariable(Cur, t, tasks[t].process.command.expression.name)
    /\ LeftOver(t) # <<>>

\* C11: a Break or a Link run while the context still binds variables fails
\* with UnfulfilledObligations naming exactly those variables, and sends no
\* message on the object (nor on the linked endpoint): the endpoints go to
\* the drain with the variables.
C11_ObligationsAtExit ==
    [][\A t \in Tasks :
          EndsWithObligations(t)
              => LET object == ValueOf(Cur, t, tasks[t].process.name)
                     names == [i \in 1..Len(LeftOver(t)) |-> LeftOver(t)[i].name]
                 IN /\ tasks'[t].st = "failed"
                    /\ tasks'[t].result = UnfulfilledObligations(names)
                    /\ chan' = chan
                    /\ object \in tasks'[t].thrown
                    /\ tasks'[t].lost = {}]_vars

\* a Break on a sender failed over a variable left, and the drain sent the Error
C11_Witness ==
    \E t \in Tasks :
        /\ tasks[t].st = "failed"
        /\ tasks[t].last.op = "break_to"
        /\ tasks[t].last.obj.side = "Sender"
        /\ tasks[t].result.kind = "UnfulfilledObligations"
        /\ tasks[t].result.names # <<>>
        /\ chan[tasks[t].last.obj.ch].sent = <<MsgError(tasks[t].result)>>

(***************************************************************************)
(* The type checker (src/src/par/types.rs)                                 *)
(*                                                                         *)
(* Types are records tagged by `kind`; the branches of an Either or a      *)
(* Choice are a function from branch names to types; `asc` is an IndexSet  *)
(* of loop-point labels, a sequence without repetition.  Spans are left    *)
(* out.  The types drawn below use no Primitive, Var, SendType or          *)
(* ReceiveType, and Names take no arguments.                               *)
(***************************************************************************)
\* IndexSet::contains, insert and shift_remove
AscContains(asc, label) == \E i \in 1..Len(asc) : asc[i] = label

AscInsert(asc, label) == IF AscContains(asc, label) THEN asc ELSE Append(asc, label)

AscRemove(asc, label) == SelectSeq(asc, LAMBDA l : l # label)

TypeChan(t) == [kind |-> "Chan", t |-> t]
TypeName(name) == [kind |-> "Name", name |-> name]
TypeSend(t, u) == [kind |-> "Send", t |-> t, u |-> u]
TypeReceive(t, u) == [kind |-> "Receive", t |-> t, u |-> u]
TypeEither(branches) == [kind |-> "Either", branches |-> branches]
TypeChoice(branches) == [kind |-> "Choice", branches |-> branches]
TypeBreak == [kind |-> "Break"]
TypeContinue == [kind |-> "Continue"]
TypeRecursive(asc, label, body) ==
    [kind |-> "Recursive", asc |-> asc, label |-> label, body |-> body]
TypeIterative(asc, label, body) ==
    [kind |-> "Iterative", asc |-> asc, label |-> label, body |-> body]
TypeSelf(label) == [kind |-> "Self", label |-> label]
TypePrimitive(p) == [kind |-> "Primitive", p |-> p]
TypeVar(name) == [kind |-> "Var", name |-> name]
TypeSendType(name, body) == [kind |-> "SendType", name |-> name, body |-> body]
TypeReceiveType(name, body) == [kind |-> "ReceiveType", name |-> name, body |-> body]

\* the globals of TypeDefs: type Nat = recursive either { .a !, .b self }
TypeDefs ==
    [Nat |-> TypeRecursive(<<>>, "None",
                 TypeEither([a |-> TypeBreak, b |-> TypeSelf("None")]))]

\* the vars of TypeDefs: the type variables in scope
TypeVars == {"X", "Y"}

\* TypeDefs::get of a Name without arguments
TypeDefsGet(name) == IF name \in TypeVars THEN TypeVar(name) ELSE TypeDefs[name]

RECURSIVE Substitute(_, _, _)

\* Type::substitute: typ takes the place of the variable var in self, be it
\* a Var or a Name without arguments
Substitute(self, var, typ) ==
    CASE self.kind \in {"Primitive", "Break", "Continue", "Self"} -> self
      [] self.kind = "Chan" -> TypeChan(Substitute(self.t, var, typ))
      [] self.kind \in {"Var", "Name"} -> IF self.name = var THEN typ ELSE self
      [] self.kind \in {"Send", "Receive"} ->
           [self EXCEPT !.t = Substitute(self.t, var, typ),
                        !.u = Substitute(self.u, var, typ)]
      [] self.kind \in {"Either", "Choice"} ->
           [self EXCEPT !.branches =
               [b \in DOMAIN self.branches |-> Substitute(self.branches[b], var, typ)]]
      [] self.kind \in {"Recursive", "Iterative"} ->
           [self EXCEPT !.body = Substitute(self.body, var, typ)]
      [] self.kind \in {"SendType", "ReceiveType"} ->
           IF self.name = var THEN self
           ELSE [self EXCEPT !.body = Substitute(self.body, var, typ)]

RECURSIVE IsPositive(_), IsNegative(_), IsPositiveByKind(_)

\* an is_positive that goes by the kind of an Either alone
IsPositiveByKind(typ) ==
    CASE typ.kind = "Chan" -> IsNegative(typ.t)
      [] typ.kind = "Name" -> IsPositiveByKind(TypeDefsGet(typ.name))
      [] typ.kind = "Send" -> IsPositiveByKind(typ.t) /\ IsPositiveByKind(typ.u)
      [] typ.kind \in {"Receive", "Choice", "Continue", "Var"} -> FALSE
      [] typ.kind \in {"Either", "Break", "Self", "Primitive"} -> TRUE
      [] typ.kind \in {"Recursive", "Iterative"} -> IsPositiveByKind(typ.body)
      [] typ.kind \in {"SendType", "ReceiveType"} ->
           IsPositiveByKind(Substitute(typ.body, typ.name, TypeVar(typ.name)))

\* Type::is_positive
IsPositive(typ) ==
    CASE typ.kind = "Chan" -> IsNegative(typ.t)
      [] typ.kind = "Name" -> IsPositive(TypeDefsGet(typ.name))
      [] typ.kind = "Send" -> IsPositive(typ.t) /\ IsPositive(typ.u)
      [] typ.kind = "Receive" -> FALSE
      [] typ.kind = "Either" ->
           \A b \in DOMAIN typ.branches : IsPositive(typ.branches[b])
      [] typ.kind = "Choice" -> FALSE
      [] typ.kind = "Break" -> TRUE
      [] typ.kind = "Continue" -> FALSE
      [] typ.kind \in {"Recursive", "Iterative"} -> IsPositive(typ.body)
      [] typ.kind = "Self" -> TRUE
      [] typ.kind = "Primitive" -> TRUE
      [] typ.kind = "Var" -> FALSE
      [] typ.kind \in {"SendType", "ReceiveType"} ->
           IsPositive(Substitute(typ.body, typ.name, TypeVar(typ.name)))

\* Type::is_negative
IsNegative(typ) ==
    CASE typ.kind = "Chan" -> IsPositive(typ.t)
      [] typ.kind = "Name" -> IsNegative(TypeDefsGet(typ.name))
      [] typ.kind = "Send" -> FALSE
      [] typ.kind = "Receive" -> IsPositive(typ.t) /\ IsNegative(typ.u)
      [] typ.kind = "Either" -> FALSE
      [] typ.kind = "Choice" ->
           \A b \in DOMAIN typ.branches : IsNegative(typ.branches[b])
      [] typ.kind = "Break" -> FALSE
      [] typ.kind = "Continue" -> TRUE
      [] typ.kind \in {"Recursive", "Iterative"} -> IsNegative(typ.body)
      [] typ.kind = "Self" -> TRUE
      [] typ.kind = "Primitive" -> TRUE
      [] typ.kind = "Var" -> FALSE
      [] typ.kind \in {"SendType", "ReceiveType"} ->
           IsNegative(Substitute(typ.body, typ.name, TypeVar(typ.name)))

\* Type::is_linear
IsLinear(typ) == ~IsPositive(typ)

RECURSIVE ChanSelf(_, _)

\* Type::chan_self: the occurrences of `self label` turn to `chan self`
\* and the occurrences of `chan self label` to `self`
ChanSelf(typ, label) ==
    CASE typ.kind = "Chan" ->
           IF typ.t.kind = "Self" /\ typ.t.label = label
           THEN typ.t
           ELSE TypeChan(ChanSelf(typ.t, label))
      [] typ.kind = "Name" -> typ
      [] typ.kind \in {"Send", "Receive"} ->
           [typ EXCEPT !.t = ChanSelf(typ.t, label), !.u = ChanSelf(typ.u, label)]
      [] typ.kind \in {"Either", "Choice"} ->
           [typ EXCEPT !.branches =
               [b \in DOMAIN typ.branches |-> ChanSelf(typ.branches[b], label)]]
      [] typ.kind \in {"Break", "Continue"} -> typ
      [] typ.kind \in {"Recursive", "Iterative"} ->
           IF typ.label = label
           THEN typ
           ELSE [typ EXCEPT !.body = ChanSelf(typ.body, label)]
      [] typ.kind = "Self" ->
           IF typ.label = label THEN TypeChan(typ) ELSE typ
      [] typ.kind \in {"Primitive", "Var"} -> typ
      [] typ.kind \in {"SendType", "ReceiveType"} ->
           [typ EXCEPT !.body = ChanSelf(typ.body, label)]

RECURSIVE DualOf(_)

\* a dual that leaves ? as it is
DualOfBottom(typ) ==
    CASE typ.kind = "Chan" -> typ.t
      [] typ.kind = "Name" ->
           IF typ.name \in TypeVars THEN TypeChan(TypeVar(typ.name))
           ELSE DualOf(TypeDefs[typ.name])
      [] typ.kind = "Send" -> TypeReceive(typ.t, DualOf(typ.u))
      [] typ.kind = "Receive" -> TypeSend(typ.t, DualOf(typ.u))
      [] typ.kind = "Either" ->
           TypeChoice([b \in DOMAIN typ.branches |-> DualOf(typ.branches[b])])
      [] typ.kind = "Choice" ->
           TypeEither([b \in DOMAIN typ.branches |-> DualOf(typ.branches[b])])
      [] typ.kind = "Break" -> TypeContinue
      [] typ.kind = "Continue" -> TypeContinue
      [] typ.kind = "Recursive" ->
           TypeIterative(typ.asc, typ.label, ChanSelf(DualOf(typ.body), typ.label))
      [] typ.kind = "Iterative" ->
           TypeRecursive(typ.asc, typ.label, ChanSelf(DualOf(typ.body), typ.label))
      [] typ.kind = "Self" -> TypeChan(typ)
      [] typ.kind \in {"Primitive", "Var"} -> TypeChan(typ)
      [] typ.kind = "SendType" -> TypeReceiveType(typ.name, DualOf(typ.body))
      [] typ.kind = "ReceiveType" -> TypeSendType(typ.name, DualOf(typ.body))

\* a dual that takes the dual of what a Send sends, too
DualOfBoth(typ) ==
    CASE typ.kind = "Chan" -> typ.t
      [] typ.kind = "Name" ->
           IF typ.name \in TypeVars THEN TypeChan(TypeVar(typ.name))
           ELSE DualOf(TypeDefs[typ.name])
      [] typ.kind = "Send" -> TypeReceive(DualOf(typ.t), DualOf(typ.u))
      [] typ.kind = "Receive" -> TypeSend(typ.t, DualOf(typ.u))
      [] typ.kind = "Either" ->
           TypeChoice([b \in DOMAIN typ.branches |-> DualOf(typ.branches[b])])
      [] typ.kind = "Choice" ->
           TypeEither([b \in DOMAIN typ.branches |-> DualOf(typ.branches[b])])
      [] typ.kind = "Break" -> TypeContinue
      [] typ.kind = "Continue" -> TypeBreak
      [] typ.kind = "Recursive" ->
           TypeIterative(typ.asc, typ.label, ChanSelf(DualOf(typ.body), typ.label))
      [] typ.kind = "Iterative" ->
           TypeRecursive(typ.asc, typ.label, ChanSelf(DualOf(typ.body), typ.label))
      [] typ.kind = "Self" -> TypeChan(typ)
      [] typ.kind \in {"Primitive", "Var"} -> TypeChan(typ)
      [] typ.kind = "SendType" -> TypeReceiveType(typ.name, DualOf(typ.body))
      [] typ.kind = "ReceiveType" -> TypeSendType(typ.name, DualOf(typ.body))

\* Type::dual
DualOf(typ) ==
    CASE typ.kind = "Chan" -> typ.t
      [] typ.kind = "Name" ->
           IF typ.name \in TypeVars THEN TypeChan(TypeVar(typ.name))
           ELSE DualOf(TypeDefs[typ.name])
      [] typ.kind = "Send" -> TypeReceive(typ.t, DualOf(typ.u))
      [] typ.kind = "Receive" -> TypeSend(typ.t, DualOf(typ.u))
      [] typ.kind = "Either" ->
           TypeChoice([b \in DOMAIN typ.branches |-> DualOf(typ.branches[b])])
      [] typ.kind = "Choice" ->
           TypeEither([b \in DOMAIN typ.branches |-> DualOf(typ.branches[b])])
      [] typ.kind = "Break" -> TypeContinue
      [] typ.kind = "Continue" -> TypeBreak
      [] typ.kind = "Recursive" ->
           TypeIterative(typ.asc, typ.label, ChanSelf(DualOf(typ.body), typ.label))
      [] typ.kind = "Iterative" ->
           TypeRecursive(typ.asc, typ.label, ChanSelf(DualOf(typ.body), typ.label))
      [] typ.kind = "Self" -> TypeChan(typ)
      [] typ.kind \in {"Primitive", "Var"} -> TypeChan(typ)
      [] typ.kind = "SendType" -> TypeReceiveType(typ.name, DualOf(typ.body))
      [] typ.kind = "ReceiveType" -> TypeSendType(typ.name, DualOf(typ.body))

RECURSIVE ExpandRecursiveHelper(_, _, _, _)

\* Type::expand_recursive_helper: `self top_label` becomes the recursive type
\* itself, carrying top_asc
ExpandRecursiveHelper(typ, top_asc, top_label, top_body) ==
    CASE typ.kind = "Chan" ->
           IF typ.t.kind = "Self" /\ typ.t.label = top_label
           THEN TypeIterative(top_asc, top_label,
                              ChanSelf(DualOf(top_body), top_label))
           ELSE TypeChan(ExpandRecursiveHelper(typ.t, top_asc, top_label, top_body))
      [] typ.kind = "Name" -> typ
      [] typ.kind \in {"Send", "Receive"} ->
           [typ EXCEPT !.t = ExpandRecursiveHelper(typ.t, top_asc, top_label, top_body),
                       !.u = ExpandRecursiveHelper(typ.u, top_asc, top_label, top_body)]
      [] typ.kind \in {"Either", "Choice"} ->
           [typ EXCEPT !.branches =
               [b \in DOMAIN typ.branches |->
                   ExpandRecursiveHelper(typ.branches[b], top_asc, top_label, top_body)]]
      [] typ.kind \in {"Break", "Continue"} -> typ
      [] typ.kind = "Recursive" ->
           IF typ.label = top_label
           THEN typ
           ELSE [typ EXCEPT !.body =
                    ExpandRecursiveHelper(typ.body, top_asc, top_label, top_body)]
      [] typ.kind = "Iterative" ->
           [typ EXCEPT !.body =
               ExpandRecursiveHelper(typ.body, top_asc, top_label, top_body)]
      [] typ.kind = "Self" ->
           IF typ.label = top_label
           THEN TypeRecursive(top_asc, top_label, top_body)
           ELSE typ
      [] typ.kind \in {"Primitive", "Var"} -> typ
      [] typ.kind \in {"SendType", "ReceiveType"} ->
           [typ EXCEPT !.body =
               ExpandRecursiveHelper(typ.body, top_asc, top_label, top_body)]

\* Type::expand_recursive
ExpandRecursive(asc, label, body) == ExpandRecursiveHelper(body, asc, label, body)

RECURSIVE ExpandIterativeHelper(_, _, _, _), InvalidateAscendent(_, _)

\* Type::expand_iterative_helper
ExpandIterativeHelper(typ, top_asc, top_label, top_body) ==
    CASE typ.kind = "Chan" ->
           IF typ.t.kind = "Self" /\ typ.t.label = top_label
           THEN TypeRecursive(top_asc, top_label,
                              ChanSelf(DualOf(top_body), top_label))
           ELSE TypeChan(ExpandIterativeHelper(typ.t, top_asc, top_label, top_body))
      [] typ.kind = "Name" -> typ
      [] typ.kind \in {"Send", "Receive"} ->
           [typ EXCEPT !.t = ExpandIterativeHelper(typ.t, top_asc, top_label, top_body),
                       !.u = ExpandIterativeHelper(typ.u, top_asc, top_label, top_body)]
      [] typ.kind \in {"Either", "Choice"} ->
           [typ EXCEPT !.branches =
               [b \in DOMAIN typ.branches |->
                   ExpandIterativeHelper(typ.branches[b], top_asc, top_label, top_body)]]
      [] typ.kind \in {"Break", "Continue"} -> typ
      [] typ.kind = "Recursive" ->
           [typ EXCEPT !.body =
               ExpandIterativeHelper(typ.body, top_asc, top_label, top_body)]
      [] typ.kind = "Iterative" ->
           IF typ.label = top_label
           THEN typ
           ELSE [typ EXCEPT !.body =
                    ExpandIterativeHelper(typ.body, top_asc, top_label, top_body)]
      [] typ.kind = "Self" ->
           IF typ.label = top_label
           THEN TypeIterative(top_asc, top_label, top_body)
           ELSE typ
      [] typ.kind \in {"Primitive", "Var"} -> typ
      [] typ.kind \in {"SendType", "ReceiveType"} ->
           [typ EXCEPT !.body =
               ExpandIterativeHelper(typ.body, top_asc, top_label, top_body)]

\* Type::expand_iterative
ExpandIterative(asc, label, body) == ExpandIterativeHelper(body, asc, label, body)

\* an invalidate_ascendent that stops at the binders nested in a type
InvalidateShallow(typ, label) ==
    CASE typ.kind \in {"Recursive", "Iterative"} ->
           [typ EXCEPT !.asc = AscRemove(typ.asc, label)]
      [] OTHER -> typ

\* Type::invalidate_ascendent: label leaves every asc of the type
InvalidateAscendent(typ, label) ==
    CASE typ.kind = "Chan" -> TypeChan(InvalidateAscendent(typ.t, label))
      [] typ.kind = "Name" -> typ
      [] typ.kind \in {"Send", "Receive"} ->
           [typ EXCEPT !.t = InvalidateAscendent(typ.t, label),
                       !.u = InvalidateAscendent(typ.u, label)]
      [] typ.kind \in {"Either", "Choice"} ->
           [typ EXCEPT !.branches =
               [b \in DOMAIN typ.branches |->
                   InvalidateAscendent(typ.branches[b], label)]]
      [] typ.kind \in {"Break", "Continue", "Self", "Primitive", "Var"} -> typ
      [] typ.kind \in {"Recursive", "Iterative"} ->
           [typ EXCEPT !.asc = AscRemove(typ.asc, label),
                       !.body = InvalidateAscendent(typ.body, label)]
      [] typ.kind \in {"SendType", "ReceiveType"} ->
           [typ EXCEPT !.body = InvalidateAscendent(typ.body, label)]

\* the branches of the types, in the order the types list them
BranchOrder == <<"a", "b">>

RECURSIVE HasAscendent(_, _)

\* label is in the asc of a binder of the type, at some depth
HasAscendent(typ, label) ==
    CASE typ.kind = "Chan" -> HasAscendent(typ.t, label)
      [] typ.kind \in {"Send", "Receive"} ->
           HasAscendent(typ.t, label) \/ HasAscendent(typ.u, label)
      [] typ.kind \in {"Either", "Choice"} ->
           \E b \in DOMAIN typ.branches : HasAscendent(typ.branches[b], label)
      [] typ.kind \in {"Recursive", "Iterative"} ->
           AscContains(typ.asc, label) \/ HasAscendent(typ.body, label)
      [] typ.kind \in {"SendType", "ReceiveType"} -> HasAscendent(typ.body, label)
      [] OTHER -> FALSE

RECURSIVE Assignable(_, _, _, _), EitherAssignable(_, _, _, _, _)
RECURSIVE ChoiceAssignable(_, _, _, _, _)

\* the loops of is_assignable_to over the branches of two Eithers, from the
\* i-th on: the branches of the first, then those of the second
EitherAssignable(branches1, branches2, ind, seen, i) ==
    IF i > Len(BranchOrder)
    THEN IF DOMAIN branches2 \subseteq DOMAIN branches1 THEN "yes" ELSE "no"
    ELSE IF BranchOrder[i] \notin DOMAIN branches1
    THEN EitherAssignable(branches1, branches2, ind, seen, i + 1)
    ELSE IF BranchOrder[i] \notin DOMAIN branches2 THEN "no"
    ELSE LET first == Assignable(branches1[BranchOrder[i]],
                                 branches2[BranchOrder[i]], ind, seen)
         IN IF first # "yes" THEN first
            ELSE EitherAssignable(branches1, branches2, ind, seen, i + 1)

\* the second loop of is_assignable_to over the branches of two Choices,
\* from the i-th on: the branches of the second
ChoiceAssignable(branches1, branches2, ind, seen, i) ==
    IF i > Len(BranchOrder) THEN "yes"
    ELSE IF BranchOrder[i] \notin DOMAIN branches2
    THEN ChoiceAssignable(branches1, branches2, ind, seen, i + 1)
    ELSE IF BranchOrder[i] \notin DOMAIN branches1 THEN "no"
    ELSE LET first == Assignable(branches1[BranchOrder[i]],
                                 branches2[BranchOrder[i]], ind, seen)
         IN IF first # "yes" THEN first
            ELSE ChoiceAssignable(branches1, branches2, ind, seen, i + 1)

\* is_assignable_to of two Selfs: the pair of their labels is in ind
SelfAssignable(label1, label2, ind) ==
    IF <<label1, label2>> \in ind THEN "yes" ELSE "no"

\* Type::is_assignable_to inside the calls of seen; ind is the set of pairs
\* of labels of the binders the comparison is inside of.  The answer is
\* "yes" for Ok(true), "no" for Ok(false), and "diverges" where the function
\* calls itself with the arguments of a call it is inside of, which it then
\* does without end.
Assignable(t1, t2, ind, seen) ==
    LET inside == seen \cup {<<t1, t2, ind>>}
    IN IF <<t1, t2, ind>> \in seen THEN "diverges"
       ELSE
    CASE t1.kind = "Chan" /\ t2.kind = "Chan" -> Assignable(t2.t, t1.t, ind, inside)
      [] t1.kind = "Chan" ->
           LET dual_t2 == DualOf(t2)
           IN IF dual_t2.kind = "Chan" THEN "no"
              ELSE Assignable(dual_t2, t1.t, ind, inside)
      [] t2.kind = "Chan" ->
           LET dual_t1 == DualOf(t1)
           IN IF dual_t1.kind = "Chan" THEN "no"
              ELSE Assignable(t2.t, dual_t1, ind, inside)
      [] t1.kind = "Var" /\ t2.kind = "Var" ->
           IF t1.name = t2.name THEN "yes" ELSE "no"
      [] t1.kind = "Name" -> Assignable(TypeDefsGet(t1.name), t2, ind, inside)
      [] t2.kind = "Name" -> Assignable(t1, TypeDefsGet(t2.name), ind, inside)
      [] t1.kind = "Send" /\ t2.kind = "Send" ->
           LET first == Assignable(t1.t, t2.t, ind, inside)
           IN IF first # "yes" THEN first ELSE Assignable(t1.u, t2.u, ind, inside)
      [] t1.kind = "Receive" /\ t2.kind = "Receive" ->
           LET first == Assignable(t2.t, t1.t, ind, inside)
           IN IF first # "yes" THEN first ELSE Assignable(t1.u, t2.u, ind, inside)
      [] t1.kind = "Either" /\ t2.kind = "Either" ->
           EitherAssignable(t1.branches, t2.branches, ind, inside, 1)
      [] t1.kind = "Choice" /\ t2.kind = "Choice" ->
           IF ~(DOMAIN t1.branches \subseteq DOMAIN t2.branches) THEN "no"
           ELSE ChoiceAssignable(t1.branches, t2.branches, ind, inside, 1)
      [] t1.kind = t2.kind /\ t1.kind \in {"Break", "Continue"} -> "yes"
      [] t1.kind = "Recursive" /\ t2.kind = "Recursive" ->
           IF \E i \in 1..Len(t2.asc) : ~AscContains(t1.asc, t2.asc[i]) THEN "no"
           ELSE Assignable(t1.body, t2.body, ind \cup {<<t1.label, t2.label>>}, inside)
      [] t2.kind = "Recursive" ->
           Assignable(t1, ExpandRecursive(t2.asc, t2.label, t2.body), ind, inside)
      [] t1.kind = "Iterative" /\ t2.kind = "Iterative" ->
           IF \E i \in 1..Len(t2.asc) : ~AscContains(t1.asc, t2.asc[i]) THEN "no"
           ELSE Assignable(t1.body, t2.body, ind \cup {<<t1.label, t2.label>>}, inside)
      [] t1.kind = "Iterative" ->
           Assignable(ExpandIterative(t1.asc, t1.label, t1.body), t2, ind, inside)
      [] t1.kind = "Self" /\ t2.kind = "Self" -> SelfAssignable(t1.label, t2.label, ind)
      [] t1.kind = t2.kind /\ t1.kind \in {"SendType", "ReceiveType"} ->
           Assignable(t1.body, Substitute(t2.body, t2.name, TypeVar(t1.name)), ind, inside)
      [] OTHER -> "no"

\* Type::is_assignable_to, as check_assignable and the checker call it
IsAssignableTo(t1, t2, ind) == Assignable(t1, t2, ind, {})

(***************************************************************************)
(* The checker's Context                                                   *)
(*                                                                         *)
(* A context c is [variables, loop_points]: variables is the IndexMap of   *)
(* the names in scope, in insertion order, and loop_points maps a label to *)
(* the driver and the snapshot of a Begin.  The functions of Context       *)
(* return [ok, c, ...]: the context they leave, and typ or error.          *)
(***************************************************************************)
Typed(name, typ) == [name |-> name, typ |-> typ]

\* variables.get(name)
IsBound(variables, name) == \E i \in 1..Len(variables) : variables[i].name = name

TypeOf(variables, name) ==
    variables[CHOOSE i \in 1..Len(variables) : variables[i].name = name].typ

\* IndexMap::insert: a bound name keeps its place and gets the new type
Insert(variables, name, typ) ==
    IF IsBound(variables, name)
    THEN [i \in 1..Len(variables) |->
             IF variables[i].name = name THEN Typed(name, typ) ELSE variables[i]]
    ELSE Append(variables, Typed(name, typ))

\* TypeError
TypeNameNotDefined(name) == [kind |-> "NameNotDefined", name |-> name]
TypeShadowedObligation(name) == [kind |-> "ShadowedObligation", name |-> name]
TypeUnfulfilledObligations(names) == [kind |-> "UnfulfilledObligations", names |-> names]
InvalidOperation(operation, typ) ==
    [kind |-> "InvalidOperation", operation |-> operation, typ |-> typ]
InvalidBranch(branch, typ) == [kind |-> "InvalidBranch", branch |-> branch, typ |-> typ]
MissingBranch(branch, typ) == [kind |-> "MissingBranch", branch |-> branch, typ |-> typ]
RedundantBranch(branch, typ) == [kind |-> "RedundantBranch", branch |-> branch, typ |-> typ]
CannotAssignFromTo(t, u) == [kind |-> "CannotAssignFromTo", from |-> t, to |-> u]
TypeNoSuchLoopPoint(label) == [kind |-> "NoSuchLoopPoint", label |-> label]
DoesNotDescendSubjectOfBegin(label) ==
    [kind |-> "DoesNotDescendSubjectOfBegin", label |-> label]
LoopVariableNotPreserved(name) == [kind |-> "LoopVariableNotPreserved", name |-> name]
LoopVariableChangedType(name, current, at_begin) ==
    [kind |-> "LoopVariableChangedType", name |-> name,
     current |-> current, at_begin |-> at_begin]
NoTypeError == [kind |-> "none"]

\* what stands for the result of a function that does not return
NoReturn == [kind |-> "diverges"]

Okay(c) == [ok |-> TRUE, c |-> c, error |-> NoTypeError]
Failed(c, error) == [ok |-> FALSE, c |-> c, error |-> error]

\* the checked definitions of the program: one global, y, of type !
CheckedDefinitions == [y |-> TypeBreak]

\* Context::check_definition, of a program whose definitions are checked
CheckDefinition(c, name) ==
    IF name \in DOMAIN CheckedDefinitions
    THEN [ok |-> TRUE, c |-> c, typ |-> CheckedDefinitions[name], error |-> NoTypeError]
    ELSE [ok |-> FALSE, c |-> c, typ |-> TypeBreak, error |-> TypeNameNotDefined(name)]

\* Context::get_variable of a bound name
TypeGetVariable(c, name) == [c EXCEPT !.variables = ShiftRemove(@, name)]

\* a get that leaves the variable in the context
TypeGetKeeping(c, name) ==
    IF IsBound(c.variables, name)
    THEN [ok |-> TRUE, c |-> c, typ |-> TypeOf(c.variables, name), error |-> NoTypeError]
    ELSE CheckDefinition(c, name)

\* Context::get
TypeGet(c, name) ==
    IF IsBound(c.variables, name)
    THEN [ok |-> TRUE, c |-> TypeGetVariable(c, name),
          typ |-> TypeOf(c.variables, name), error |-> NoTypeError]
    ELSE CheckDefinition(c, name)

\* a put that inserts over whatever the name is bound to
TypePutOver(c, name, typ) ==
    Okay([c EXCEPT !.variables = Insert(@, name, typ)])

\* Context::put
TypePut(c, name, typ) ==
    IF IsBound(c.variables, name) /\ IsLinear(TypeOf(c.variables, name))
    THEN Failed(c, TypeShadowedObligation(name))
    ELSE Okay([c EXCEPT !.variables = Insert(@, name, typ)])

\* Context::invalidate_ascendent
ContextInvalidateAscendent(c, label) ==
    [c EXCEPT !.variables =
        [i \in 1..Len(@) |-> Typed(@[i].name, InvalidateAscendent(@[i].typ, label))]]

\* Context::obligations
TypeObligations(c) ==
    LET linear == SelectSeq(c.variables, LAMBDA b : IsLinear(b.typ))
    IN [i \in 1..Len(linear) |-> linear[i].name]

\* a cannot_have_obligations that lets the context end with variables
TypeCannotHaveObligationsLax(c) == Okay(c)

\* Context::cannot_have_obligations
TypeCannotHaveObligations(c) ==
    IF TypeObligations(c) # <<>>
    THEN Failed(c, TypeUnfulfilledObligations(TypeObligations(c)))
    ELSE Okay(c)

\* Context::infer_expression of a Reference: a value of nonlinear type stays
InferReference(c, name) ==
    LET got == TypeGet(c, name)
    IN IF ~got.ok THEN got
       ELSE IF IsLinear(got.typ) THEN got
       ELSE LET back == TypePut(got.c, name, got.typ)
            IN [ok |-> back.ok, c |-> back.c, typ |-> got.typ, error |-> back.error]

\* Context::check_expression of a Reference against target_type
CheckReference(c, name, target_type) ==
    LET got == TypeGet(c, name)
    IN IF ~got.ok THEN Failed(got.c, got.error)
       ELSE IF IsAssignableTo(got.typ, target_type, {}) = "diverges"
       THEN Failed(got.c, NoReturn)
       ELSE IF IsAssignableTo(got.typ, target_type, {}) = "no"
       THEN Failed(got.c, CannotAssignFromTo(got.typ, target_type))
       ELSE IF IsLinear(got.typ) THEN Okay(got.c)
       ELSE TypePut(got.c, name, got.typ)

(***************************************************************************)
(* Context::check_command                                                  *)
(*                                                                         *)
(* A command is [cmd, object, name, branch, label, unfounded, captures]:   *)
(* name is the variable a Link or a Send refers to or the parameter of a   *)
(* Receive, branch the branch a Choose chooses or the branch of a Match    *)
(* the checker is followed into, branches the branches of a Match in the   *)
(* order they are written.                                                 *)
(***************************************************************************)
Command(cmd, object) ==
    [cmd |-> cmd, object |-> object, name |-> "", branch |-> "",
     branches |-> <<>>, label |-> "None", unfounded |-> FALSE, captures |-> {}]

\* the type of a check_command that calls itself without end
Diverges == [kind |-> "Diverges"]

RECURSIVE Unfold(_, _, _)

\* an unfolding that does not look at the command
UnfoldEager(typ, cmd, seen) ==
    IF typ \in seen THEN Diverges
    ELSE CASE typ.kind = "Name" ->
                Unfold(TypeDefsGet(typ.name), cmd, seen \cup {typ})
           [] typ.kind = "Iterative" ->
                Unfold(ExpandIterative(typ.asc, typ.label, typ.body), cmd, seen \cup {typ})
           [] typ.kind = "Recursive" ->
                Unfold(ExpandRecursive(typ.asc, typ.label, typ.body), cmd, seen \cup {typ})
           [] typ.kind = "Chan" /\ DualOf(typ.t).kind # "Chan" ->
                Unfold(DualOf(typ.t), cmd, seen \cup {typ})
           [] OTHER -> typ

\* the head of check_command: the type the command is checked against.
\* The function calls itself on the unfolded type; a type that comes back
\* (seen) makes it call itself without end.
Unfold(typ, cmd, seen) ==
    IF typ \in seen THEN Diverges
    ELSE CASE typ.kind = "Name" ->
                Unfold(TypeDefsGet(typ.name), cmd, seen \cup {typ})
           [] typ.kind = "Iterative" /\ cmd # "Link" ->
                Unfold(ExpandIterative(typ.asc, typ.label, typ.body), cmd, seen \cup {typ})
           [] typ.kind = "Recursive" /\ cmd \notin {"Begin", "Loop"} ->
                Unfold(ExpandRecursive(typ.asc, typ.label, typ.body), cmd, seen \cup {typ})
           [] typ.kind = "Chan" /\ DualOf(typ.t).kind # "Chan" ->
                Unfold(DualOf(typ.t), cmd, seen \cup {typ})
           [] OTHER -> typ

\* Command::Link
CheckLink(c, typ, command) ==
    LET checked == CheckReference(c, command.name, DualOf(typ))
    IN IF ~checked.ok THEN checked ELSE TypeCannotHaveObligations(checked.c)

\* Command::Send
CheckSend(c, typ, command) ==
    IF typ.kind # "Receive" THEN Failed(c, InvalidOperation("Send", typ))
    ELSE LET checked == CheckReference(c, command.name, typ.t)
         IN IF ~checked.ok THEN checked
            ELSE TypePut(checked.c, command.object, typ.u)

\* Command::Receive, without annotation
CheckReceive(c, typ, command) ==
    IF typ.kind # "Send" THEN Failed(c, InvalidOperation("Receive", typ))
    ELSE LET parameter == TypePut(c, command.name, typ.t)
         IN IF ~parameter.ok THEN parameter
            ELSE TypePut(parameter.c, command.object, typ.u)

\* Command::Choose
CheckChoose(c, typ, command) ==
    IF typ.kind # "Choice" THEN Failed(c, InvalidOperation("Choose", typ))
    ELSE IF command.branch \notin DOMAIN typ.branches
    THEN Failed(c, InvalidBranch(command.branch, typ))
    ELSE TypePut(c, command.object, typ.branches[command.branch])

\* the place of a branch among the branches of a Match
IndexOf(branches, branch) ==
    CHOOSE i \in 1..Len(branches) :
        /\ branches[i] = branch
        /\ \A j \in 1..(i - 1) : branches[j] # branch

\* a Match that is asked for no branch of the type
MissingNone(required_branches, branches) == <<>>

\* the branches of the type the Match has no process for, in the order of
\* the type
Missing(required_branches, branches) ==
    SelectSeq(BranchOrder,
              LAMBDA b : /\ b \in DOMAIN required_branches
                         /\ \A i \in 1..Len(branches) : branches[i] # b)

\* the branches of the Match, up to the one at upto, the type does not have
Redundant(required_branches, branches, upto) ==
    SelectSeq(SubSeq(branches, 1, upto), LAMBDA b : b \notin DOMAIN required_branches)

\* Command::Match, followed into the process of the branch command.branch;
\* the processes of the branches before it are taken to be accepted
CheckMatch(c, typ, command) ==
    IF typ.kind # "Either" THEN Failed(c, InvalidOperation("Match", typ))
    ELSE LET missing == Missing(typ.branches, command.branches)
             redundant == Redundant(typ.branches, command.branches,
                                    IndexOf(command.branches, command.branch))
         IN IF missing # <<>> THEN Failed(c, MissingBranch(missing[1], typ))
            ELSE IF redundant # <<>> THEN Failed(c, RedundantBranch(redundant[1], typ))
            ELSE TypePut(c, command.object, typ.branches[command.branch])

\* Command::Break
CheckBreak(c, typ, command) ==
    IF typ.kind # "Continue" THEN Failed(c, InvalidOperation("Break", typ))
    ELSE TypeCannotHaveObligations(c)

\* Command::Continue
CheckContinue(c, typ, command) ==
    IF typ.kind # "Break" THEN Failed(c, InvalidOperation("Continue", typ))
    ELSE Okay(c)

\* loop_points.get of a label no Begin has entered
NoTypePoint == [set |-> FALSE, driver |-> "", variables |-> <<>>]

\* the snapshot of a Begin: the captured variables, then the object
Snapshot(c, command, typ_asc, typ) ==
    LET captured == SelectSeq(c.variables, LAMBDA b : b.name \in command.captures)
    IN Insert(captured, command.object, TypeRecursive(typ_asc, typ.label, typ.body))

\* a Begin that records no label, as if every Begin were unfounded
TypAscNever(asc, label, unfounded) == asc

\* typ_asc of Command::Begin: the label joins asc unless the Begin is
\* unfounded
TypAsc(asc, label, unfounded) ==
    IF unfounded THEN asc ELSE AscInsert(asc, label)

\* Command::Begin
CheckBegin(c, typ, command) ==
    IF typ.kind # "Recursive" THEN Failed(c, InvalidOperation("Begin", typ))
    ELSE LET typ_asc == TypAsc(typ.asc, command.label, command.unfounded)
             c1 == ContextInvalidateAscendent(c, command.label)
             c2 == [c1 EXCEPT !.loop_points[command.label] =
                       [set |-> TRUE, driver |-> command.object,
                        variables |-> Snapshot(c1, command, typ_asc, typ)]]
         IN TypePut(c2, command.object, ExpandRecursive(typ_asc, typ.label, typ.body))

RECURSIVE CheckSnapshot(_, _, _)

\* a Loop that does not look at the snapshot
CheckSnapshotNone(c, variables, i) == Okay(c)

\* the loop of Command::Loop over the snapshot, from its i-th variable
CheckSnapshot(c, variables, i) ==
    IF i > Len(variables) THEN Okay(c)
    ELSE LET var == variables[i].name
             type_at_begin == variables[i].typ
         IN IF ~IsBound(c.variables, var)
            THEN Failed(c, LoopVariableNotPreserved(var))
            ELSE LET current_type == TypeOf(c.variables, var)
                     c1 == TypeGetVariable(c, var)
                 IN IF IsAssignableTo(current_type, type_at_begin, {}) = "diverges"
                    THEN Failed(c1, NoReturn)
                    ELSE IF IsAssignableTo(current_type, type_at_begin, {}) = "no"
                    THEN Failed(c1, LoopVariableChangedType(var, current_type, type_at_begin))
                    ELSE CheckSnapshot(c1, variables, i + 1)

\* the first label of asc2 that asc1 lacks
Undescended(asc1, asc2) ==
    SelectSeq(asc2, LAMBDA label : ~AscContains(asc1, label))

\* a descent check that accepts every asc
DescendsAlways(asc1, asc2) == TRUE

\* the descent check of Command::Loop
Descends(asc1, asc2) == Undescended(asc1, asc2) = <<>>

\* Command::Loop
CheckLoop(c, typ, command) ==
    IF typ.kind # "Recursive" THEN Failed(c, InvalidOperation("Loop", typ))
    ELSE IF ~c.loop_points[command.label].set
    THEN Failed(c, TypeNoSuchLoopPoint(command.label))
    ELSE LET driver == c.loop_points[command.label].driver
             variables == c.loop_points[command.label].variables
             put == TypePut(c, driver, typ)
             asc2 == TypeOf(variables, driver).asc
         IN IF ~put.ok THEN put
            ELSE IF ~Descends(typ.asc, asc2)
            THEN Failed(put.c, DoesNotDescendSubjectOfBegin(Undescended(typ.asc, asc2)[1]))
            ELSE LET preserved == CheckSnapshot(put.c, variables, 1)
                 IN IF ~preserved.ok THEN preserved
                    ELSE TypeCannotHaveObligations(preserved.c)

\* the match of check_command on the command
CheckCommand(c, typ, command) ==
    CASE command.cmd = "Link" -> CheckLink(c, typ, command)
      [] command.cmd = "Send" -> CheckSend(c, typ, command)
      [] command.cmd = "Receive" -> CheckReceive(c, typ, command)
      [] command.cmd = "Choose" -> CheckChoose(c, typ, command)
      [] command.cmd = "Match" -> CheckMatch(c, typ, command)
      [] command.cmd = "Break" -> CheckBreak(c, typ, command)
      [] command.cmd = "Continue" -> CheckContinue(c, typ, command)
      [] command.cmd = "Begin" -> CheckBegin(c, typ, command)
      [] command.cmd = "Loop" -> CheckLoop(c, typ, command)

(***************************************************************************)
(* The checker walking down a process                                      *)
(*                                                                         *)
(* `checker` is the Context of check_process and where it stands: st is    *)
(* "run" while the process goes on, "ok" when a Link, a Break or a Loop    *)
(* ended it with Ok, "err" when check_process returned the Err in result,  *)
(* "diverged" when check_command calls itself without end.  A step checks  *)
(* one Let or one Do, drawn from the names, branches and labels below; a   *)
(* Match is followed into one of its branches.  last is the command of the *)
(* last step with the type the object had (given) and the type the command *)
(* was checked against (typ); since[l] counts the Send, Receive, Choose,   *)
(* Match and Continue commands accepted since the last Begin(l), and       *)
(* begins lists the Begins entered so far, the outermost first; cleared    *)
(* tells whether the step was a Begin(l) that found l in the asc of a      *)
(* variable other than its object.                                         *)
(***************************************************************************)
MaxSteps == 4

TypeNames == {"x", "y"}
Branches == {"a", "b"}

\* Nat, by its name
Natural == TypeName("Nat")
\* recursive self
Idle == TypeRecursive(<<>>, "None", TypeSelf("None"))
\* recursive either { .a !, .b (self) self }
Tree == TypeRecursive(<<>>, "None",
            TypeEither([a |-> TypeBreak,
                        b |-> TypeSend(TypeSelf("None"), TypeSelf("None"))]))
\* iterative choice { .a => ?, .b => self }
Server == TypeIterative(<<>>, "None",
              TypeChoice([a |-> TypeContinue, b |-> TypeSelf("None")]))
\* [Nat] ?
Function == TypeReceive(Natural, TypeContinue)
\* the types x and y start with
ObjectTypes ==
    {Natural, Idle, Tree, Server, TypeChan(Natural)}

OtherTypes == {Natural, Function, TypeContinue}

NoCommand == [Command("", "") EXCEPT !.cmd = "none"]

NoTypeLoopPoints == [l \in Points |-> NoTypePoint]

\* Context::new with the parameters of the process as its variables
Checking(variables) ==
    [st |-> "run", variables |-> variables, loop_points |-> NoTypeLoopPoints,
     result |-> NoTypeError, last |-> NoCommand,
     given |-> TypeBreak, typ |-> TypeBreak,
     since |-> [l \in Points |-> 0], begins |-> <<>>, cleared |-> FALSE,
     steps |-> 0]

ContextOf(k) == [variables |-> k.variables, loop_points |-> k.loop_points]

Communications == {"Send", "Receive", "Choose", "Match", "Continue"}

\* what check_process leaves: r is the result of the step, command its
\* command
Checked(r, command, given, typ) ==
    [st |-> IF r.error = NoReturn THEN "diverged"
            ELSE IF ~r.ok THEN "err"
            ELSE IF command.cmd \in {"Link", "Break", "Loop"} THEN "ok" ELSE "run",
     variables |-> r.c.variables, loop_points |-> r.c.loop_points,
     result |-> r.error, last |-> command, given |-> given, typ |-> typ,
     since |-> [l \in Points |->
                   IF ~r.ok THEN checker.since[l]
                   ELSE IF command.cmd = "Begin" /\ command.label = l THEN 0
                   ELSE IF command.cmd \in Communications THEN checker.since[l] + 1
                   ELSE checker.since[l]],
     begins |-> IF r.ok /\ command.cmd = "Begin"
                THEN Append(checker.begins,
                            [label |-> command.label, unfounded |-> command.unfounded])
                ELSE checker.begins,
     cleared |-> /\ r.ok
                 /\ command.cmd = "Begin"
                 /\ \E i \in 1..Len(checker.variables) :
                       /\ checker.variables[i].name # command.object
                       /\ HasAscendent(checker.variables[i].typ, command.label),
     steps |-> checker.steps + 1]

Steps ==
    /\ checker.st = "run"
    /\ checker.steps < MaxSteps
    /\ UNCHANGED <<tasks, chan, drains>>

\* Process::Let of a Reference, without annotation
CheckLet ==
    /\ Steps
    /\ \E name \in TypeNames : \E value \in TypeNames \ {name} :
          LET command == [Command("Let", name) EXCEPT !.name = value]
              inferred == InferReference(ContextOf(checker), value)
              r == IF ~inferred.ok THEN Failed(inferred.c, inferred.error)
                   ELSE TypePut(inferred.c, name, inferred.typ)
          IN checker' = Checked(r, command, TypeBreak, TypeBreak)

\* Process::Do: the object leaves the context and the command is checked
\* against its type
CheckDo(command) ==
    /\ Steps
    /\ LET got == TypeGet(ContextOf(checker), command.object)
       IN IF ~got.ok
          THEN checker' = Checked(Failed(got.c, got.error), command, TypeBreak, TypeBreak)
          ELSE LET typ == Unfold(got.typ, command.cmd, {})
               IN IF typ = Diverges
                  THEN checker' = Checked(Failed(got.c, NoReturn), command, got.typ, typ)
                  ELSE checker' = Checked(CheckCommand(got.c, typ, command),
                                          command, got.typ, typ)

DoLink ==
    \E object \in TypeNames, name \in TypeNames :
        CheckDo([Command("Link", object) EXCEPT !.name = name])

DoSend ==
    \E object \in TypeNames, name \in TypeNames :
        CheckDo([Command("Send", object) EXCEPT !.name = name])

DoReceive ==
    \E object \in TypeNames, name \in TypeNames :
        CheckDo([Command("Receive", object) EXCEPT !.name = name])

DoChoose ==
    \E object \in TypeNames, branch \in Branches :
        CheckDo([Command("Choose", object) EXCEPT !.branch = branch])

\* the branches of the Matches of the processes: those of the type, too
\* few, too many, and both
MatchBranches == {<<"a", "b">>, <<"a">>, <<"a", "c", "b">>, <<"c", "a">>}

DoMatch ==
    \E object \in TypeNames, branches \in MatchBranches :
      \E i \in 1..Len(branches) :
        CheckDo([Command("Match", object) EXCEPT !.branches = branches,
                                                 !.branch = branches[i]])

DoBreak == \E object \in TypeNames : CheckDo(Command("Break", object))

DoContinue == \E object \in TypeNames : CheckDo(Command("Continue", object))

\* the Begins of the processes: begin, begin :l and unfounded begin
Begins == {<<"None", FALSE>>, <<"l", FALSE>>, <<"None", TRUE>>}

DoBegin ==
    \E object \in TypeNames, begin \in Begins :
      \E captures \in SUBSET (TypeNames \ {object}) :
        CheckDo([Command("Begin", object) EXCEPT !.label = begin[1],
                     !.unfounded = begin[2], !.captures = captures])

DoLoop ==
    \E object \in TypeNames, label \in Points :
        CheckDo([Command("Loop", object) EXCEPT !.label = label])

\* the process has x, and maybe y, as its parameters
TypeInit ==
    /\ tasks = <<>>
    /\ chan = <<>>
    /\ drains = {}
    /\ \E t \in ObjectTypes :
          \/ checker = Checking(<<Typed("x", t)>>)
          \/ \E u \in OtherTypes : checker = Checking(<<Typed("x", t), Typed("y", u)>>)

TypeNext ==
    \/ CheckLet
    \/ DoLink
    \/ DoSend
    \/ DoReceive
    \/ DoChoose
    \/ DoMatch
    \/ DoBreak
    \/ DoContinue
    \/ DoBegin
    \/ DoLoop

TypeSpec == TypeInit /\ [][TypeNext]_vars

TypeOk == checker.st \in {"run", "ok", "err", "diverged"}

(***************************************************************************)
(* Properties of the type checker (under TypeSpec)                         *)
(***************************************************************************)
\* the checker has accepted the process, whose last command is a Loop
AcceptedLoop ==
    /\ checker.st = "ok"
    /\ checker.last.cmd = "Loop"

\* C12: in a process the checker accepts that has no unfounded begin, a
\* Loop(label) comes after at least one communication command (Send,
\* Receive, Choose, Match or Continue) checked since the matching
\* Begin(label).
C12_LoopAfterDescent ==
    (AcceptedLoop /\ \A i \in 1..Len(checker.begins) : ~checker.begins[i].unfounded)
        => checker.since[checker.last.label] > 0

\* the last step checked a Loop that found its loop point and put the
\* object's type back under the name of the driver
LoopAtDescentCheck ==
    /\ checker.last.cmd = "Loop"
    /\ checker.typ.kind = "Recursive"
    /\ checker.loop_points[checker.last.label].set
    /\ checker.result.kind # "ShadowedObligation"

\* the asc recorded for the driver at the Begin the last Loop loops to
AscAtBegin ==
    LET point == checker.loop_points[checker.last.label]
    IN TypeOf(point.variables, point.driver).asc

\* C13: a Loop(label) is rejected with DoesNotDescendSubjectOfBegin, of a
\* label that is missing, exactly when the asc of the object's type lacks a
\* label of the asc recorded for the driver at the matching Begin(label).
C13_LoopDescends ==
    LoopAtDescentCheck
        => LET missing == SeqToSet(AscAtBegin) \ SeqToSet(checker.typ.asc)
           IN IF missing = {}
              THEN checker.result.kind # "DoesNotDescendSubjectOfBegin"
              ELSE /\ checker.st = "err"
                   /\ checker.result.kind = "DoesNotDescendSubjectOfBegin"
                   /\ checker.result.label \in missing

\* a Loop on a recursive value other than the driver, which does not descend
\* from the subject of the Begin, is rejected
C13_Witness ==
    /\ LoopAtDescentCheck
    /\ checker.last.object # checker.loop_points[checker.last.label].driver
    /\ checker.given.kind = "Recursive"
    /\ checker.result = DoesNotDescendSubjectOfBegin(checker.last.label)

\* the place in begins of the Begin a Loop(label) loops to
Matching(label) ==
    CHOOSE i \in 1..Len(checker.begins) :
        /\ checker.begins[i].label = label
        /\ \A j \in (i + 1)..Len(checker.begins) : checker.begins[j].label # label

\* C14: a Loop to the label of a Begin that is not unfounded is rejected
\* with DoesNotDescendSubjectOfBegin when the label is missing from the asc
\* of the object's type, whether or not a Begin of another label, entered
\* since, is unfounded.
C14_UnfoundedOwnLabel ==
    LoopAtDescentCheck
        => LET label == checker.last.label
           IN (/\ ~checker.begins[Matching(label)].unfounded
               /\ ~AscContains(checker.typ.asc, label))
                  => /\ checker.st = "err"
                     /\ checker.result.kind = "DoesNotDescendSubjectOfBegin"

\* inside a Begin that is not unfounded, an unfounded Begin of another label
\* was entered on the object, and the Loop of the object to the outer label
\* is rejected
C14_Witness ==
    /\ LoopAtDescentCheck
    /\ ~AscContains(checker.typ.asc, checker.last.label)
    /\ checker.result = DoesNotDescendSubjectOfBegin(checker.last.label)
    /\ \E i \in 1..Len(checker.begins) :
          /\ i > Matching(checker.last.label)
          /\ checker.begins[i].unfounded
          /\ checker.loop_points[checker.begins[i].label].driver = checker.last.object

\* the step is a Loop that passes the descent check
LoopAtSnapshot ==
    /\ checker'.last.cmd = "Loop"
    /\ checker'.typ.kind = "Recursive"
    /\ checker.loop_points[checker'.last.label].set
    /\ checker'.result.kind \notin
          {"ShadowedObligation", "DoesNotDescendSubjectOfBegin", "diverges"}

\* the variables the Loop of the step compares with the snapshot: the
\* object has gone and has come back under the name of the driver
AtLoop ==
    LET point == checker.loop_points[checker'.last.label]
    IN Insert(ShiftRemove(checker.variables, checker'.last.object),
              point.driver, checker'.typ)

\* the places of the snapshot whose variable is absent, or has a type that
\* is not assignable to its type at the Begin
NotPreserved ==
    LET variables == checker.loop_points[checker'.last.label].variables
    IN {i \in 1..Len(variables) :
           \/ ~IsBound(AtLoop, variables[i].name)
           \/ IsAssignableTo(TypeOf(AtLoop, variables[i].name), variables[i].typ, {}) = "no"}

\* the linear variables at the Loop that the snapshot does not record
Unrecorded ==
    LET variables == checker.loop_points[checker'.last.label].variables
    IN SelectSeq(AtLoop, LAMBDA b : IsLinear(b.typ) /\ ~IsBound(variables, b.name))

\* C15: a Loop(label) that passes the descent check is accepted only if
\* every variable of the snapshot of Begin(label) is bound to a type
\* assignable to its type at the Begin and no other linear variable is left;
\* it reports LoopVariableNotPreserved for the first variable of the
\* snapshot that fails if it is absent, LoopVariableChangedType if its type
\* is not assignable, and UnfulfilledObligations for the other linear
\* variables.
C15_LoopChecksSnapshot ==
    [][LoopAtSnapshot
          => LET variables == checker.loop_points[checker'.last.label].variables
             IN IF NotPreserved # {}
                THEN LET i == CHOOSE i \in NotPreserved : \A j \in NotPreserved : i <= j
                         var == variables[i].name
                     IN /\ checker'.st = "err"
                        /\ checker'.result =
                              IF ~IsBound(AtLoop, var)
                              THEN LoopVariableNotPreserved(var)
                              ELSE LoopVariableChangedType(var, TypeOf(AtLoop, var),
                                                           variables[i].typ)
                ELSE IF Unrecorded # <<>>
                THEN /\ checker'.st = "err"
                     /\ checker'.result = TypeUnfulfilledObligations(
                            [i \in 1..Len(Unrecorded) |-> Unrecorded[i].name])
                ELSE checker'.st = "ok"]_vars

\* a Loop was rejected because a captured variable of the Begin has gone
C15_Witness ==
    /\ checker.last.cmd = "Loop"
    /\ checker.result.kind = "LoopVariableNotPreserved"
    /\ checker.result.name # checker.loop_points[checker.last.label].driver

\* the last step entered a Begin
EnteredBegin ==
    /\ checker.last.cmd = "Begin"
    /\ checker.st = "run"

\* C16: right after the checker enters Begin(label), no variable of the
\* context other than the object of the Begin has a type with label in an
\* asc, at any depth.
C16_BeginInvalidates ==
    EnteredBegin
        => \A i \in 1..Len(checker.variables) :
              checker.variables[i].name # checker.last.object
                  => ~HasAscendent(checker.variables[i].typ, checker.last.label)

\* the Begin found its label in an asc nested in the type of another
\* variable, under an Either
C16_Witness ==
    /\ EnteredBegin
    /\ checker.cleared
    /\ \E i \in 1..Len(checker.variables) :
          /\ checker.variables[i].name # checker.last.object
          /\ checker.variables[i].typ.kind = "Either"

\* the last step was a Do whose check_command came to its command:
\* checker.given is the type of the object, checker.typ the type the
\* command was checked against
CommandChecked ==
    /\ checker.last.cmd \notin {"none", "Let"}
    /\ checker.st # "diverged"

\* a type that check_command unfolds no further
Unfolded(expanded) ==
    expanded.kind \notin {"Name", "Chan", "Recursive", "Iterative"}

\* C17: a command is checked against the object's type unfolded through
\* Name whatever the command, through Iterative unless the command is a
\* Link, and through Recursive unless the command is a Begin or a Loop: a
\* Link sees an Iterative as it is, a Begin or a Loop a Recursive as it is.
C17_Unfolds ==
    CommandChecked
        => LET cmd == checker.last.cmd
               given == checker.given
               typ == checker.typ
           IN /\ typ.kind # "Name"
              /\ typ.kind = "Iterative" => cmd = "Link"
              /\ typ.kind = "Recursive" => cmd \in {"Begin", "Loop"}
              /\ (given.kind = "Iterative" /\ cmd = "Link") => typ = given
              /\ (given.kind = "Recursive" /\ cmd \in {"Begin", "Loop"}) => typ = given
              /\ (given.kind = "Iterative" /\ cmd # "Link")
                    => LET expanded == ExpandIterative(given.asc, given.label, given.body)
                       IN Unfolded(expanded) => typ = expanded
              /\ (given.kind = "Recursive" /\ cmd \notin {"Begin", "Loop"})
                    => LET expanded == ExpandRecursive(given.asc, given.label, given.body)
                       IN Unfolded(expanded) => typ = expanded

\* a Link of an iterative object, checked against the Iterative type and
\* accepted
C17_Witness ==
    /\ CommandChecked
    /\ checker.last.cmd = "Link"
    /\ checker.given.kind = "Iterative"
    /\ checker.typ = checker.given
    /\ checker.st = "ok"

\* C17 as the specification words it: the type is unfolded through
\* Iterative unless the command is a Begin or a Loop, and through Recursive
\* unless the command is a Link or a Loop.
C17_UnfoldsAsWorded ==
    CommandChecked
        => LET cmd == checker.last.cmd
               given == checker.given
               typ == checker.typ
           IN /\ typ.kind # "Name"
              /\ typ.kind = "Iterative" => cmd \in {"Begin", "Loop"}
              /\ typ.kind = "Recursive" => cmd \in {"Link", "Loop"}
              /\ (given.kind = "Iterative" /\ cmd \in {"Begin", "Loop"}) => typ = given
              /\ (given.kind = "Recursive" /\ cmd \in {"Link", "Loop"}) => typ = given

\* the step is a Let whose reference resolves, or a Receive of a parameter
\* on an object of a Send type: both put a name
Puts ==
    \/ /\ checker'.last.cmd = "Let"
       /\ InferReference(ContextOf(checker), checker'.last.name).ok
    \/ /\ checker'.last.cmd = "Receive"
       /\ checker'.last.name # checker'.last.object
       /\ checker'.typ.kind = "Send"

\* the name the step puts, the type it puts, and the variables it puts
\* them into
PutName ==
    IF checker'.last.cmd = "Let" THEN checker'.last.object ELSE checker'.last.name

PutType ==
    IF checker'.last.cmd = "Let"
    THEN InferReference(ContextOf(checker), checker'.last.name).typ
    ELSE checker'.typ.t

PutInto ==
    IF checker'.last.cmd = "Let"
    THEN InferReference(ContextOf(checker), checker'.last.name).c.variables
    ELSE ShiftRemove(checker.variables, checker'.last.object)

\* C18: put(name, t) on a name bound to a linear type fails with
\* ShadowedObligation and leaves the variables as they were, the earlier
\* binding among them; on a name that is unbound or bound to a nonlinear
\* type it binds name to t and leaves the other variables.
C18_PutShadow ==
    [][Puts
          => IF IsBound(PutInto, PutName) /\ IsLinear(TypeOf(PutInto, PutName))
             THEN /\ checker'.st = "err"
                  /\ checker'.result = TypeShadowedObligation(PutName)
                  /\ checker'.variables = PutInto
             ELSE /\ checker'.result.kind # "ShadowedObligation"
                     \/ checker'.result.name # PutName
                  /\ IsBound(checker'.variables, PutName)
                  /\ checker'.last.cmd = "Let"
                        => /\ checker'.st = "run"
                           /\ TypeOf(checker'.variables, PutName) = PutType
                           /\ ShiftRemove(checker'.variables, PutName)
                                 = ShiftRemove(PutInto, PutName)]_vars

\* a Let of a name bound to a linear type was rejected, and the name is
\* still bound to that type
C18_Witness ==
    /\ checker.last.cmd = "Let"
    /\ checker.result = TypeShadowedObligation(checker.last.object)
    /\ IsBound(checker.variables, checker.last.object)
    /\ IsLinear(TypeOf(checker.variables, checker.last.object))

\* the step checks a Reference to the variable checker'.last.name: the
\* value of a Let, or the argument of a Send that is assignable to the type
\* the object receives
Refers ==
    /\ IsBound(checker.variables, checker'.last.name)
    /\ checker'.last.name # checker'.last.object
    /\ \/ checker'.last.cmd = "Let"
       \/ /\ checker'.last.cmd = "Send"
          /\ checker'.typ.kind = "Receive"
          /\ IsAssignableTo(TypeOf(checker.variables, checker'.last.name),
                            checker'.typ.t, {}) = "yes"

\* the step is a Let that refers to a name that is not a variable
RefersToNoVariable ==
    /\ checker'.last.cmd = "Let"
    /\ ~IsBound(checker.variables, checker'.last.name)

\* C19: a reference to a variable of linear type takes the variable out of
\* the context, and a reference to a name that is no variable of the
\* context resolves to the definition of that name or fails with
\* NameNotDefined; a reference to a variable of nonlinear type leaves it
\* bound to the same type.
C19_ReferenceMoves ==
    [][/\ Refers
          => LET name == checker'.last.name
                 typ == TypeOf(checker.variables, name)
             IN IF IsLinear(typ)
                THEN ~IsBound(checker'.variables, name)
                ELSE /\ IsBound(checker'.variables, name)
                     /\ TypeOf(checker'.variables, name) = typ
       /\ RefersToNoVariable
          => LET name == checker'.last.name
             IN IF name \in DOMAIN CheckedDefinitions
                THEN checker'.st = "run"
                        => TypeOf(checker'.variables, checker'.last.object)
                              = CheckedDefinitions[name]
                ELSE checker'.result = TypeNameNotDefined(name)]_vars

\* a Let moved a variable of linear type to another name: the variable is
\* bound no more
C19_Witness ==
    /\ checker.last.cmd = "Let"
    /\ checker.st = "run"
    /\ ~IsBound(checker.variables, checker.last.name)
    /\ IsLinear(TypeOf(checker.variables, checker.last.object))

\* the step is a Break on an object of type ?, or a Link on an object whose
\* dual the linked name may be assigned to; the object itself was found
Ends ==
    LET rest == [variables |-> ShiftRemove(checker.variables, checker'.last.object),
                 loop_points |-> checker.loop_points]
    IN /\ TypeGet(ContextOf(checker), checker'.last.object).ok
       /\ \/ /\ checker'.last.cmd = "Break"
             /\ checker'.typ.kind = "Continue"
          \/ /\ checker'.last.cmd = "Link"
             /\ checker'.st # "diverged"
             /\ CheckReference(rest, checker'.last.name, DualOf(checker'.typ)).ok

\* the variables left when the command of the step has taken what it uses
LeftAtEnd ==
    LET rest == [variables |-> ShiftRemove(checker.variables, checker'.last.object),
                 loop_points |-> checker.loop_points]
    IN IF checker'.last.cmd = "Break" THEN rest.variables
       ELSE CheckReference(rest, checker'.last.name, DualOf(checker'.typ)).c.variables

\* C20: a Link or a Break is accepted only if no variable of linear type is
\* left in the context; otherwise it is rejected with UnfulfilledObligations
\* of the names of the linear variables left, in their order.
C20_EndsWithoutObligations ==
    [][Ends
          => LET linear == SelectSeq(LeftAtEnd, LAMBDA b : IsLinear(b.typ))
                 names == [i \in 1..Len(linear) |-> linear[i].name]
             IN IF names = <<>>
                THEN checker'.st = "ok"
                ELSE /\ checker'.st = "err"
                     /\ checker'.result = TypeUnfulfilledObligations(names)]_vars

\* a Link was rejected for the linear variable it leaves
C20_Witness ==
    /\ checker.last.cmd = "Link"
    /\ checker.result.kind = "UnfulfilledObligations"
    /\ \E i \in 1..Len(checker.variables) :
          /\ IsLinear(checker.variables[i].typ)
          /\ checker.result.names = <<checker.variables[i].name>>

\* the step is a Match on an object of type Either, followed into its last
\* branch, so that every branch of the Match has been looked at
MatchedThrough ==
    /\ checker'.last.cmd = "Match"
    /\ checker'.typ.kind = "Either"
    /\ checker'.last.branch = checker'.last.branches[Len(checker'.last.branches)]

\* C21: a Match on an object of type Either(m) passes the check of its
\* branches exactly when the labels of its branches are the keys of m; when a
\* key of m has no branch it fails with MissingBranch of such a key and the
\* type, and otherwise, when a branch has a label that is no key of m, it
\* fails with RedundantBranch of such a label and the type.
C21_MatchBranches ==
    [][MatchedThrough
          => LET keys == DOMAIN checker'.typ.branches
                 labels == {checker'.last.branches[i] :
                               i \in 1..Len(checker'.last.branches)}
             IN /\ (checker'.st = "run") <=> (labels = keys)
                /\ keys \ labels # {}
                      => /\ checker'.result.kind = "MissingBranch"
                         /\ checker'.result.branch \in keys \ labels
                         /\ checker'.result.typ = checker'.typ
                /\ keys \ labels = {} /\ labels \ keys # {}
                      => /\ checker'.result.kind = "RedundantBranch"
                         /\ checker'.result.branch \in labels \ keys
                         /\ checker'.result.typ = checker'.typ]_vars

\* a Match with a branch for every key of the type, and one more, was
\* rejected for that branch
C21_Witness ==
    /\ checker.last.cmd = "Match"
    /\ checker.typ.kind = "Either"
    /\ checker.last.branches = <<"a", "c", "b">>
    /\ checker.last.branch = "b"
    /\ checker.result = RedundantBranch("c", checker.typ)

(***************************************************************************)
(* The checker on the definitions of a program (Context::check_definition) *)
(*                                                                         *)
(* A definition is the sequence of the global names its expression refers  *)
(* to, in the order the checker meets them in one process; all of them are *)
(* well typed but for the cycles of their references.  Under DefSpec,      *)
(* checker is the Context a program is checked in: its definitions, the    *)
(* names of checked_definitions, current_deps, the result of the last      *)
(* check_definition and its name.                                          *)
(***************************************************************************)
DefNames == {"a", "b", "c"}
MaxRefs == 2

DependencyCycle(deps) == [kind |-> "DependencyCycle", deps |-> deps]

\* skip_while(|dep| dep != name) on current_deps
RECURSIVE SkipWhile(_, _)
SkipWhile(deps, name) ==
    IF deps = <<>> \/ Head(deps) = name THEN deps
    ELSE SkipWhile(Tail(deps), name)

RECURSIVE CheckDefinitionDeps(_, _)
RECURSIVE CheckReferences(_, _, _)

\* check_expression or infer_expression of the expression of a definition:
\* each Reference gets its name, which checks the definition of that name
CheckReferences(d, references, i) ==
    IF i > Len(references) THEN [ok |-> TRUE, d |-> d, error |-> NoTypeError]
    ELSE LET r == CheckDefinitionDeps(d, references[i])
         IN IF ~r.ok THEN r ELSE CheckReferences(r.d, references, i + 1)

\* check_definition of a Context with unchecked definitions
CheckDefinitionDeps(d, name) ==
    IF name \in d.checked THEN [ok |-> TRUE, d |-> d, error |-> NoTypeError]
    ELSE IF name \notin DOMAIN d.unchecked
    THEN [ok |-> FALSE, d |-> d, error |-> TypeNameNotDefined(name)]
    ELSE IF AscContains(d.current_deps, name)
    THEN [ok |-> FALSE, d |-> d,
          error |-> DependencyCycle(SkipWhile(d.current_deps, name))]
    ELSE LET r == CheckReferences([d EXCEPT !.current_deps = Append(@, name)],
                                  d.unchecked[name], 1)
         IN IF ~r.ok THEN r
            ELSE [ok |-> TRUE, d |-> [r.d EXCEPT !.checked = @ \cup {name}],
                  error |-> NoTypeError]

\* the expressions of the definitions: up to MaxRefs references
References == UNION {[1..n -> DefNames] : n \in 0..MaxRefs}

\* Context::new with the definitions of the program
Defining(unchecked) ==
    [st |-> "defs", unchecked |-> unchecked, checked |-> {}, current_deps |-> <<>>,
     result |-> NoTypeError, last |-> ""]

DefInit ==
    /\ tasks = <<>>
    /\ chan = <<>>
    /\ drains = {}
    /\ \E unchecked \in [DefNames -> References] : checker = Defining(unchecked)

\* the program's definitions are checked one after another in one Context,
\* until one of them fails
CheckDefinitionOf(name) ==
    /\ checker.st = "defs"
    /\ name \notin checker.checked
    /\ LET r == CheckDefinitionDeps([unchecked |-> checker.unchecked,
                                     checked |-> checker.checked,
                                     current_deps |-> checker.current_deps], name)
       IN checker' = [st |-> IF r.ok THEN "defs" ELSE "err",
                      unchecked |-> checker.unchecked,
                      checked |-> r.d.checked,
                      current_deps |-> r.d.current_deps,
                      result |-> r.error, last |-> name]
    /\ UNCHANGED <<tasks, chan, drains>>

DefNext == \E name \in DefNames : CheckDefinitionOf(name)

DefSpec == DefInit /\ [][DefNext]_vars

\* the names the expression of a definition refers to
RefersTo(unchecked, m) == {unchecked[m][i] : i \in 1..Len(unchecked[m])}

\* n is met from m along the references, in one step or more
RECURSIVE ReachedIn(_, _, _)
ReachedIn(unchecked, from, k) ==
    LET next == UNION {RefersTo(unchecked, m) : m \in from}
    IN IF k = 0 THEN {} ELSE next \cup ReachedIn(unchecked, next, k - 1)

Reaches(unchecked, m, n) == n \in ReachedIn(unchecked, {m}, Cardinality(DefNames))

\* C22: check_definition rejects with DependencyCycle every definition
\* that refers to itself, directly or through other definitions, the error
\* carries the names on the cycle, and no DependencyCycle is reported when
\* the references of the definitions have no cycle.
C22_DependencyCycle ==
    /\ checker.last # "" /\ Reaches(checker.unchecked, checker.last, checker.last)
          => checker.result.kind = "DependencyCycle"
    /\ checker.result.kind = "DependencyCycle"
          => \A i \in 1..Len(checker.result.deps) :
                /\ Reaches(checker.unchecked, checker.result.deps[i], checker.result.deps[i])
                /\ Reaches(checker.unchecked, checker.result.deps[i], checker.result.deps[1])

(***************************************************************************)
(* The functions of Type on their own                                      *)
(*                                                                         *)
(* Under TermSpec, checker holds two types s and t and what the functions  *)
(* of Type have answered about them so far; a field holds Unasked until    *)
(* its function has been called.                                           *)
(***************************************************************************)
SelfUsedInNegativePosition(label) ==
    [kind |-> "SelfUsedInNegativePosition", label |-> label]
NoMatchingRecursiveOrIterative(label) ==
    [kind |-> "NoMatchingRecursiveOrIterative", label |-> label]

RECURSIVE ValidateType(_, _, _, _), ValidateBranches(_, _, _, _, _)

\* the loop of validate_type over the branches of an Either or a Choice,
\* from the i-th on
ValidateBranches(branches, deps, self_pos, self_neg, i) ==
    IF i > Len(BranchOrder) THEN NoTypeError
    ELSE IF BranchOrder[i] \notin DOMAIN branches
    THEN ValidateBranches(branches, deps, self_pos, self_neg, i + 1)
    ELSE LET first == ValidateType(branches[BranchOrder[i]], deps, self_pos, self_neg)
         IN IF first # NoTypeError THEN first
            ELSE ValidateBranches(branches, deps, self_pos, self_neg, i + 1)

\* a validate_type that lets a Self stand in a negative position
ValidateSelfAnywhere(label, self_pos, self_neg) ==
    IF label \notin self_pos \cup self_neg THEN NoMatchingRecursiveOrIterative(label)
    ELSE NoTypeError

\* validate_type of a Self
ValidateSelf(label, self_pos, self_neg) ==
    IF label \in self_neg THEN SelfUsedInNegativePosition(label)
    ELSE IF label \notin self_pos THEN NoMatchingRecursiveOrIterative(label)
    ELSE NoTypeError

\* TypeDefs::validate_type: NoTypeError for Ok, else the error
ValidateType(typ, deps, self_pos, self_neg) ==
    CASE typ.kind \in {"Primitive", "Break", "Continue"} -> NoTypeError
      [] typ.kind = "Chan" -> ValidateType(typ.t, deps, self_neg, self_pos)
      [] typ.kind = "Var" ->
           IF typ.name \in TypeVars \cup DOMAIN TypeDefs THEN NoTypeError
           ELSE [kind |-> "TypeNameNotDefined", name |-> typ.name]
      [] typ.kind = "Name" ->
           IF typ.name \notin TypeVars /\ AscContains(deps, typ.name)
           THEN DependencyCycle(SkipWhile(deps, typ.name))
           ELSE IF typ.name \notin TypeVars \cup DOMAIN TypeDefs
           THEN [kind |-> "TypeNameNotDefined", name |-> typ.name]
           ELSE ValidateType(TypeDefsGet(typ.name),
                             IF typ.name \in TypeVars THEN deps
                             ELSE Append(deps, typ.name),
                             self_pos, self_neg)
      [] typ.kind = "Send" ->
           LET first == ValidateType(typ.t, deps, self_pos, self_neg)
           IN IF first # NoTypeError THEN first
              ELSE ValidateType(typ.u, deps, self_pos, self_neg)
      [] typ.kind = "Receive" ->
           LET first == ValidateType(typ.t, deps, self_neg, self_pos)
           IN IF first # NoTypeError THEN first
              ELSE ValidateType(typ.u, deps, self_pos, self_neg)
      [] typ.kind \in {"Either", "Choice"} ->
           ValidateBranches(typ.branches, deps, self_pos, self_neg, 1)
      [] typ.kind \in {"Recursive", "Iterative"} ->
           ValidateType(typ.body, deps, self_pos \cup {typ.label}, self_neg \ {typ.label})
      [] typ.kind = "Self" -> ValidateSelf(typ.label, self_pos, self_neg)
      [] typ.kind \in {"SendType", "ReceiveType"} ->
           ValidateType(typ.body, deps, self_pos, self_neg)

\* Int
TypeInt == TypePrimitive("Int")
\* recursive either { .a !, .b self } with the label of a Begin in its asc
Descended ==
    TypeRecursive(<<"l">>, "None", TypeEither([a |-> TypeBreak, b |-> TypeSelf("None")]))
\* recursive [self] !
Negative == TypeRecursive(<<>>, "None", TypeReceive(TypeSelf("None"), TypeBreak))
\* recursive [chan self] !
DoubleFlip ==
    TypeRecursive(<<>>, "None", TypeReceive(TypeChan(TypeSelf("None")), TypeBreak))
\* recursive either { .a iterative choice { .b => self }, .b self }
Shadowed ==
    TypeRecursive(<<>>, "None",
        TypeEither([a |-> TypeIterative(<<>>, "None", TypeChoice([b |-> TypeSelf("None")])),
                    b |-> TypeSelf("None")]))
\* iterative choice { .a => recursive either { .b self }, .b => self }
ShadowedDual ==
    TypeIterative(<<>>, "None",
        TypeChoice([a |-> TypeRecursive(<<>>, "None", TypeEither([b |-> TypeSelf("None")])),
                    b |-> TypeSelf("None")]))
\* recursive either { .a recursive either { .a !, .b self }, .b self }
Nested ==
    TypeRecursive(<<>>, "None",
        TypeEither([a |-> TypeRecursive(<<>>, "None",
                              TypeEither([a |-> TypeBreak, b |-> TypeSelf("None")])),
                    b |-> TypeSelf("None")]))
\* recursive :l iterative choice { .a => self :l, .b => self }
Labelled ==
    TypeRecursive(<<>>, "l",
        TypeIterative(<<>>, "None",
            TypeChoice([a |-> TypeSelf("l"), b |-> TypeSelf("None")])))
\* recursive :l either { .a self }
Unmatched == TypeRecursive(<<>>, "l", TypeEither([a |-> TypeSelf("None")]))
\* (type Y) (X) Y
Exists == TypeSendType("Y", TypeSend(TypeVar("X"), TypeVar("Y")))
\* [type X] [X] Y, its variables written as names
Forall == TypeReceiveType("X", TypeReceive(TypeName("X"), TypeName("Y")))
\* iterative choice { .a => self }
Forever == TypeIterative(<<>>, "None", TypeChoice([a |-> TypeSelf("None")]))
\* recursive choice { .a => self }
Again == TypeRecursive(<<>>, "None", TypeChoice([a |-> TypeSelf("None")]))

\* the types the functions are asked about
Types ==
    {TypeBreak, TypeContinue, TypeInt, TypeVar("X"), TypeVar("Y"), TypeName("X"), Natural,
     TypeSelf("None"), TypeChan(TypeBreak), TypeChan(TypeSelf("None")),
     TypeSend(TypeInt, TypeBreak), TypeSend(TypeContinue, TypeBreak), Function,
     TypeEither([a |-> TypeBreak, b |-> TypeContinue]),
     TypeChoice([a |-> TypeBreak, b |-> TypeContinue]),
     TypeEither([a |-> TypeChan(TypeBreak)]),
     Idle, Tree, Server, TypeDefs["Nat"], Descended, Negative, DoubleFlip,
     Shadowed, ShadowedDual, Nested, Labelled, Unmatched, Exists, Forall,
     Forever, Again}

Unasked == [kind |-> "Unasked"]

\* two types, and nothing asked about them
Asking(s, t) ==
    [st |-> "types", s |-> s, t |-> t, assignable |-> "unasked", duals |-> "unasked",
     dual |-> Unasked, dualdual |-> Unasked, valid |-> Unasked, var |-> "",
     subst |-> Unasked, expanded |-> Unasked, polarity |-> Unasked]

TermInit ==
    /\ tasks = <<>>
    /\ chan = <<>>
    /\ drains = {}
    /\ \E s \in Types, t \in Types : checker = Asking(s, t)

\* checker' is checker with the answer in the field asked
Answered(answer) ==
    /\ checker' = answer
    /\ UNCHANGED <<tasks, chan, drains>>

\* s.check_assignable(t)
AskAssignable ==
    /\ checker.assignable = "unasked"
    /\ Answered([checker EXCEPT !.assignable = IsAssignableTo(checker.s, checker.t, {})])

\* t.dual().check_assignable(s.dual())
AskAssignableDuals ==
    /\ checker.duals = "unasked"
    /\ Answered([checker EXCEPT
                    !.duals = IsAssignableTo(DualOf(checker.t), DualOf(checker.s), {})])

\* s.dual()
AskDual ==
    /\ checker.dual = Unasked
    /\ Answered([checker EXCEPT !.dual = DualOf(checker.s)])

\* s.dual().dual()
AskDualAgain ==
    /\ checker.dual # Unasked
    /\ checker.dualdual = Unasked
    /\ Answered([checker EXCEPT !.dualdual = DualOf(checker.dual)])

\* new_with_validation of the definition type T = s
AskValidate ==
    /\ checker.valid = Unasked
    /\ Answered([checker EXCEPT !.valid = ValidateType(checker.s, <<"T">>, {}, {})])

\* s.substitute(var, t)
AskSubstitute ==
    /\ checker.subst = Unasked
    /\ \E var \in TypeVars :
          Answered([checker EXCEPT !.var = var,
                                   !.subst = Substitute(checker.s, var, checker.t)])

\* expand_recursive or expand_iterative of s, as its kind is
AskExpand ==
    /\ checker.expanded = Unasked
    /\ checker.s.kind \in {"Recursive", "Iterative"}
    /\ Answered([checker EXCEPT !.expanded =
                    IF checker.s.kind = "Recursive"
                    THEN ExpandRecursive(checker.s.asc, checker.s.label, checker.s.body)
                    ELSE ExpandIterative(checker.s.asc, checker.s.label, checker.s.body)])

\* s.is_positive(), s.is_negative() and s.is_linear()
AskPolarity ==
    /\ checker.polarity = Unasked
    /\ Answered([checker EXCEPT !.polarity = [kind |-> "Polarity",
                                              positive |-> IsPositive(checker.s),
                                              negative |-> IsNegative(checker.s),
                                              linear |-> IsLinear(checker.s)]])

TermNext ==
    \/ AskAssignable
    \/ AskAssignableDuals
    \/ AskDual
    \/ AskDualAgain
    \/ AskValidate
    \/ AskSubstitute
    \/ AskExpand
    \/ AskPolarity

TermSpec == TermInit /\ [][TermNext]_vars

\* C23: is_assignable_to comes back with an answer for every two types that
\* validate, those among them whose unfoldings lead back to the same two
\* types as well.
C23_AssignableTerminates ==
    /\ checker.st = "types"
    /\ checker.assignable # "unasked"
    /\ ValidateType(checker.s, <<"T">>, {}, {}) = NoTypeError
    /\ ValidateType(checker.t, <<"T">>, {}, {}) = NoTypeError
    => checker.assignable \in {"yes", "no"}

\* C24: every type that validates is assignable to itself.
C24_AssignableReflexive ==
    /\ checker.st = "types"
    /\ checker.s = checker.t
    /\ checker.assignable # "unasked"
    /\ ValidateType(checker.s, <<"T">>, {}, {}) = NoTypeError
    => checker.assignable = "yes"

\* C25: s is assignable to t exactly when the dual of t is assignable to the
\* dual of s, for the types that validate and whose comparisons come back.
C25_AssignableDual ==
    /\ checker.st = "types"
    /\ checker.assignable \in {"yes", "no"}
    /\ checker.duals \in {"yes", "no"}
    /\ ValidateType(checker.s, <<"T">>, {}, {}) = NoTypeError
    /\ ValidateType(checker.t, <<"T">>, {}, {}) = NoTypeError
    => checker.assignable = checker.duals

RECURSIVE Plain(_)

\* no Chan and no Name stands in the type
Plain(typ) ==
    CASE typ.kind \in {"Chan", "Name"} -> FALSE
      [] typ.kind \in {"Send", "Receive"} -> Plain(typ.t) /\ Plain(typ.u)
      [] typ.kind \in {"Either", "Choice"} ->
           \A b \in DOMAIN typ.branches : Plain(typ.branches[b])
      [] typ.kind \in {"Recursive", "Iterative", "SendType", "ReceiveType"} ->
           Plain(typ.body)
      [] OTHER -> TRUE

C27_DualByKind ==
    checker.st = "types" /\ checker.dual # Unasked
    => LET s == checker.s
           dual == checker.dual
           Swapped(kind) ==
               CASE kind = "Send" -> "Receive"
                 [] kind = "Receive" -> "Send"
                 [] kind = "Either" -> "Choice"
                 [] kind = "Choice" -> "Either"
                 [] kind = "Break" -> "Continue"
                 [] kind = "Continue" -> "Break"
                 [] kind = "Recursive" -> "Iterative"
                 [] kind = "Iterative" -> "Recursive"
       IN /\ s.kind \in {"Send", "Receive", "Either", "Choice", "Break", "Continue",
                         "Recursive", "Iterative"}
               => dual.kind = Swapped(s.kind)
          /\ s.kind \in {"Send", "Receive"}
               => dual.t = s.t /\ dual.u = DualOf(s.u)
          /\ s.kind \in {"Either", "Choice"}
               => /\ DOMAIN dual.branches = DOMAIN s.branches
                  /\ \A b \in DOMAIN s.branches : dual.branches[b] = DualOf(s.branches[b])
          /\ s.kind \in {"Recursive", "Iterative"}
               => dual.asc = s.asc /\ dual.label = s.label
          /\ s = TypeChoice([a |-> TypeBreak, b |-> TypeContinue])
               => dual = TypeEither([a |-> TypeContinue, b |-> TypeBreak])

\* the dual of a Receive of Nat was taken: a Send of Nat
C27_Witness ==
    /\ checker.st = "types"
    /\ checker.s = Function
    /\ checker.dual = TypeSend(Natural, TypeBreak)

RECURSIVE Faults(_, _)

\* what is wrong with the Selfs of a type: binders lists the binders a place
\* in the type is inside of, the innermost first, each with its label and
\* whether the place is in a negative position of it.  A Self is "unmatched"
\* when no binder has its label and "negative" when the innermost that has
\* it is flipped.
Faults(typ, binders) ==
    LET flipped == [i \in 1..Len(binders) |->
                       [binders[i] EXCEPT !.negative = ~binders[i].negative]]
    IN CASE typ.kind = "Chan" -> Faults(typ.t, flipped)
         [] typ.kind = "Send" -> Faults(typ.t, binders) \cup Faults(typ.u, binders)
         [] typ.kind = "Receive" -> Faults(typ.t, flipped) \cup Faults(typ.u, binders)
         [] typ.kind \in {"Either", "Choice"} ->
              UNION {Faults(typ.branches[b], binders) : b \in DOMAIN typ.branches}
         [] typ.kind \in {"Recursive", "Iterative"} ->
              Faults(typ.body, <<[label |-> typ.label, negative |-> FALSE]>> \o binders)
         [] typ.kind \in {"SendType", "ReceiveType"} -> Faults(typ.body, binders)
         [] typ.kind = "Self" ->
              LET own == SelectSeq(binders, LAMBDA b : b.label = typ.label)
              IN IF own = <<>> THEN {"unmatched"}
                 ELSE IF own[1].negative THEN {"negative"}
                 ELSE {}
         [] OTHER -> {}

\* C28: a type definition validates only if every Self in it is inside a
\* Recursive or Iterative of its label and in no negative position of the
\* innermost such binder (a position is negative under an odd number of
\* flips, by what a Receive receives and by chan); otherwise validation
\* fails with NoMatchingRecursiveOrIterative or SelfUsedInNegativePosition,
\* as some Self of the type is unmatched or negative.
C28_ValidateSelfs ==
    checker.st = "types" /\ checker.valid # Unasked
    => LET faults == Faults(checker.s, <<>>)
       IN /\ checker.valid = NoTypeError <=> faults = {}
          /\ checker.valid.kind = "NoMatchingRecursiveOrIterative" => "unmatched" \in faults
          /\ checker.valid.kind = "SelfUsedInNegativePosition" => "negative" \in faults
          /\ faults # {} => checker.valid.kind \in {"NoMatchingRecursiveOrIterative",
                                                    "SelfUsedInNegativePosition"}

\* recursive [self] ! was rejected for its self
C28_Witness ==
    /\ checker.st = "types"
    /\ checker.s = Negative
    /\ checker.valid = SelfUsedInNegativePosition("None")

RECURSIVE FreeVars(_)

\* the type variables free in a type, written as a Var or as a Name
FreeVars(typ) ==
    CASE typ.kind \in {"Var", "Name"} -> {typ.name} \cap TypeVars
      [] typ.kind = "Chan" -> FreeVars(typ.t)
      [] typ.kind \in {"Send", "Receive"} -> FreeVars(typ.t) \cup FreeVars(typ.u)
      [] typ.kind \in {"Either", "Choice"} ->
           UNION {FreeVars(typ.branches[b]) : b \in DOMAIN typ.branches}
      [] typ.kind \in {"Recursive", "Iterative"} -> FreeVars(typ.body)
      [] typ.kind \in {"SendType", "ReceiveType"} -> FreeVars(typ.body) \ {typ.name}
      [] OTHER -> {}

RECURSIVE Substituted(_, _, _, _, _)

\* r is t with u in the place of its free v: r has u where t has a free v,
\* with no variable of u bound there (bound: the binders of r around the
\* place), r is t where a binder of t binds v, and r has the shape of t
\* elsewhere, whatever the names of its binders and of their variables
Substituted(t, r, v, u, bound) ==
    CASE t.kind \in {"Var", "Name"} /\ t.name = v ->
           r = u /\ FreeVars(u) \cap bound = {}
      [] t.kind \in {"Var", "Name"} /\ t.name # v ->
           r.kind = t.kind /\ (t.name \notin TypeVars => r = t)
      [] t.kind = "Chan" -> r.kind = "Chan" /\ Substituted(t.t, r.t, v, u, bound)
      [] t.kind \in {"Send", "Receive"} ->
           /\ r.kind = t.kind
           /\ Substituted(t.t, r.t, v, u, bound)
           /\ Substituted(t.u, r.u, v, u, bound)
      [] t.kind \in {"Either", "Choice"} ->
           /\ r.kind = t.kind
           /\ DOMAIN r.branches = DOMAIN t.branches
           /\ \A b \in DOMAIN t.branches :
                 Substituted(t.branches[b], r.branches[b], v, u, bound)
      [] t.kind \in {"Recursive", "Iterative"} ->
           /\ r.kind = t.kind
           /\ r.asc = t.asc
           /\ r.label = t.label
           /\ Substituted(t.body, r.body, v, u, bound)
      [] t.kind \in {"SendType", "ReceiveType"} /\ t.name = v -> r = t
      [] t.kind \in {"SendType", "ReceiveType"} /\ t.name # v ->
           /\ r.kind = t.kind
           /\ Substituted(t.body, r.body, v, u, bound \cup {r.name})
      [] OTHER -> r = t

\* C29: t[v := u] has u in the place of every free v of t, leaves the v
\* bound by an Exists or Forall binder named v in t as they are, and binds
\* no free variable of u by a binder of t.
C29_SubstituteAvoidsCapture ==
    checker.st = "types" /\ checker.subst # Unasked
    => Substituted(checker.s, checker.subst, checker.var, checker.t, {})

RECURSIVE ExpandedAs(_, _, _, _, _)

\* r is t with the fixpoint in the place of the `self label` that refer to
\* it: r has whole where t has such a self (or, where it is under chan, the
\* dual fixpoint, which is chan of whole), r is t at a Recursive or Iterative
\* of t that carries label, whose selfs are its own, and r has the shape of
\* t elsewhere
ExpandedAs(t, r, label, whole, dualwhole) ==
    CASE t.kind = "Self" -> r = (IF t.label = label THEN whole ELSE t)
      [] t.kind = "Chan" ->
           IF t.t.kind = "Self" /\ t.t.label = label
           THEN r \in {TypeChan(whole), dualwhole}
           ELSE r.kind = "Chan" /\ ExpandedAs(t.t, r.t, label, whole, dualwhole)
      [] t.kind \in {"Send", "Receive"} ->
           /\ r.kind = t.kind
           /\ ExpandedAs(t.t, r.t, label, whole, dualwhole)
           /\ ExpandedAs(t.u, r.u, label, whole, dualwhole)
      [] t.kind \in {"Either", "Choice"} ->
           /\ r.kind = t.kind
           /\ DOMAIN r.branches = DOMAIN t.branches
           /\ \A b \in DOMAIN t.branches :
                 ExpandedAs(t.branches[b], r.branches[b], label, whole, dualwhole)
      [] t.kind \in {"Recursive", "Iterative"} /\ t.label = label -> r = t
      [] t.kind \in {"Recursive", "Iterative"} /\ t.label # label ->
           /\ r.kind = t.kind
           /\ r.asc = t.asc
           /\ r.label = t.label
           /\ ExpandedAs(t.body, r.body, label, whole, dualwhole)
      [] t.kind \in {"SendType", "ReceiveType"} ->
           /\ r.kind = t.kind
           /\ r.name = t.name
           /\ ExpandedAs(t.body, r.body, label, whole, dualwhole)
      [] OTHER -> r = t

\* C30: expand_recursive(asc, label, body) is body with Recursive{asc,
\* label, body} in the place of every `self label` that refers to this
\* fixpoint, and with every `self label` bound by a nested Recursive or
\* Iterative of the same label as it was; expand_iterative likewise, with
\* Iterative{asc, label, body}.
C30_ExpandOwnSelfs ==
    checker.st = "types" /\ checker.expanded # Unasked
    => LET s == checker.s
           dualbody == ChanSelf(DualOf(s.body), s.label)
       IN ExpandedAs(s.body, checker.expanded, s.label, s,
                   IF s.kind = "Recursive"
                   THEN TypeIterative(s.asc, s.label, dualbody)
                   ELSE TypeRecursive(s.asc, s.label, dualbody))

\* C31 as worded: a Pair, an Either, a Break and a Primitive are positive
\* and a Function, a Choice and a Continue are negative whatever they are
\* made of, and a type is linear exactly when it is not positive
C31_PolarityByKind ==
    checker.st = "types" /\ checker.polarity # Unasked
    => /\ checker.s.kind \in {"Send", "Either", "Break", "Primitive"}
             => checker.polarity.positive
       /\ checker.s.kind \in {"Receive", "Choice", "Continue"}
             => checker.polarity.negative
       /\ checker.polarity.linear <=> ~checker.polarity.positive

\* C31: a Break and a Primitive are positive and a Continue is negative; a
\* Pair is positive exactly when both its parts are and an Either exactly
\* when each of its branches is; a Function is negative exactly when its
\* argument is positive and its result negative and a Choice exactly when
\* each of its branches is negative; a type is linear exactly when it is
\* not positive.
C31_PolarityByParts ==
    checker.st = "types" /\ checker.polarity # Unasked
    => LET s == checker.s
           positive == checker.polarity.positive
           negative == checker.polarity.negative
       IN /\ s.kind \in {"Break", "Primitive"} => positive
          /\ s.kind = "Continue" => negative
          /\ s.kind = "Send" => (positive <=> IsPositive(s.t) /\ IsPositive(s.u))
          /\ s.kind = "Either"
                => (positive <=> \A b \in DOMAIN s.branches : IsPositive(s.branches[b]))
          /\ s.kind = "Receive" => (negative <=> IsPositive(s.t) /\ IsNegative(s.u))
          /\ s.kind = "Choice"
                => (negative <=> \A b \in DOMAIN s.branches : IsNegative(s.branches[b]))
          /\ checker.polarity.linear <=> ~positive

\* either { .a !, .b ? } was found not positive, and linear
C31_Witness ==
    /\ checker.st = "types"
    /\ checker.s = TypeEither([a |-> TypeBreak, b |-> TypeContinue])
    /\ checker.polarity # Unasked
    /\ ~checker.polarity.positive
    /\ checker.polarity.linear

(***************************************************************************)
(* language.rs: the surface processes and their compilation to the        *)
(* processes the checker and the runtime work on.  A surface process may  *)
(* stop short (Noop); compile puts what follows (pass) in that place.     *)
(***************************************************************************)
MaxBranches == 2

\* language::Process
ProcessLet(name, value, then) ==
    [kind |-> "Let", name |-> name, value |-> value, then |-> then]
ProcessCommand(name, command) == [kind |-> "Command", name |-> name, command |-> command]
ProcessTelltypes(process) == [kind |-> "Telltypes", process |-> process]
ProcessNoop == [kind |-> "Noop"]

\* language::Command
CommandThen(process) == [kind |-> "Then", process |-> process]
CommandLink(expression) == [kind |-> "Link", expression |-> expression]
CommandSend(argument, command) ==
    [kind |-> "Send", argument |-> argument, command |-> command]
CommandReceive(parameter, command) ==
    [kind |-> "Receive", parameter |-> parameter, command |-> command]
CommandChoose(chosen, command) == [kind |-> "Choose", chosen |-> chosen, command |-> command]
CommandEither(branches, optional_process) ==
    [kind |-> "Either", branches |-> branches, optional_process |-> optional_process]
CommandBreak == [kind |-> "Break"]
CommandContinue(process) == [kind |-> "Continue", process |-> process]
CommandBegin(label, command) == [kind |-> "Begin", label |-> label, command |-> command]
CommandLoop(label) == [kind |-> "Loop", label |-> label]

\* language::CommandBranch, with the name of the branch
BranchThen(name, process) == [kind |-> "Then", name |-> name, process |-> process]
BranchContinue(name, process) == [kind |-> "Continue", name |-> name, process |-> process]

\* language::Expression
ExpressionReference(name) == [kind |-> "Reference", name |-> name]
ExpressionFork(channel, process) == [kind |-> "Fork", channel |-> channel, process |-> process]

\* Option::None of a Pass and of an optional process
NoPass == [node |-> "None"]
NoProcess == [kind |-> "None"]

\* Ok(out) and Err(CompileError::MustEndProcess)
Compiled(out) == [ok |-> TRUE, out |-> out, error |-> "none"]
MustEndProcess == [ok |-> FALSE, out |-> NoPass, error |-> "MustEndProcess"]

\* a compile that takes a process that stops short as it is
CompileNoopKeeping(pass) == IF pass = NoPass THEN Compiled(Rest) ELSE Compiled(pass)

\* Process::compile of Noop
CompileNoop(pass) == IF pass = NoPass THEN MustEndProcess ELSE Compiled(pass)

RECURSIVE CompileProcess(_, _), CompileCommand(_, _, _), CompileBranch(_, _, _)
RECURSIVE CompileBranches(_, _, _, _), CompileExpression(_)

\* Expression::compile
CompileExpression(self) ==
    CASE self.kind = "Reference" -> Compiled(Reference(self.name))
      [] self.kind = "Fork" ->
           LET process == CompileProcess(self.process, NoPass)
           IN IF ~process.ok THEN process
              ELSE Compiled(Fork({}, self.channel, process.out))

\* Process::compile
CompileProcess(self, pass) ==
    CASE self.kind = "Let" ->
           LET value == CompileExpression(self.value)
               then == CompileProcess(self.then, pass)
           IN IF ~value.ok THEN value
              ELSE IF ~then.ok THEN then
              ELSE Compiled(Let(self.name, value.out, then.out))
      [] self.kind = "Command" -> CompileCommand(self.command, self.name, pass)
      [] self.kind = "Telltypes" ->
           LET process == CompileProcess(self.process, pass)
           IN IF ~process.ok THEN process ELSE Compiled(Telltypes(process.out))
      [] self.kind = "Noop" -> CompileNoop(pass)

\* the processes of the branches from the i-th on, or the first error
CompileBranches(branches, object_name, pass, i) ==
    IF i > Len(branches) THEN Compiled(<<>>)
    ELSE LET first == CompileBranch(branches[i], object_name, pass)
             rest == CompileBranches(branches, object_name, pass, i + 1)
         IN IF ~first.ok THEN first
            ELSE IF ~rest.ok THEN rest
            ELSE Compiled(<<first.out>> \o rest.out)

\* Command::compile
CompileCommand(self, object_name, pass) ==
    CASE self.kind = "Then" -> CompileProcess(self.process, pass)
      [] self.kind = "Link" ->
           LET expression == CompileExpression(self.expression)
           IN IF ~expression.ok THEN expression
              ELSE Compiled(Do(object_name, CmdLink(expression.out)))
      [] self.kind = "Send" ->
           LET argument == CompileExpression(self.argument)
               process == CompileCommand(self.command, object_name, pass)
           IN IF ~argument.ok THEN argument
              ELSE IF ~process.ok THEN process
              ELSE Compiled(Do(object_name, CmdSend(argument.out, process.out)))
      [] self.kind = "Receive" ->
           LET process == CompileCommand(self.command, object_name, pass)
           IN IF ~process.ok THEN process
              ELSE Compiled(Do(object_name, CmdReceive(self.parameter, process.out)))
      [] self.kind = "Choose" ->
           LET process == CompileCommand(self.command, object_name, pass)
           IN IF ~process.ok THEN process
              ELSE Compiled(Do(object_name, CmdChoose(self.chosen, process.out)))
      [] self.kind = "Either" ->
           LET optional == IF self.optional_process = NoProcess THEN Compiled(pass)
                           ELSE CompileProcess(self.optional_process, pass)
           IN IF ~optional.ok THEN optional
              ELSE LET processes ==
                           CompileBranches(self.branches, object_name, optional.out, 1)
                   IN IF ~processes.ok THEN processes
                      ELSE Compiled(Do(object_name,
                               CmdMatch([i \in 1..Len(self.branches) |->
                                             self.branches[i].name],
                                        processes.out)))
      [] self.kind = "Break" -> Compiled(Do(object_name, CmdBreak))
      [] self.kind = "Continue" ->
           LET process == CompileProcess(self.process, pass)
           IN IF ~process.ok THEN process
              ELSE Compiled(Do(object_name, CmdContinue(process.out)))
      [] self.kind = "Begin" ->
           LET process == CompileCommand(self.command, object_name, pass)
           IN IF ~process.ok THEN process
              ELSE Compiled(Do(object_name, CmdBegin(self.label, process.out)))
      [] self.kind = "Loop" -> Compiled(Do(object_name, CmdLoop(self.label)))

\* CommandBranch::compile
CompileBranch(self, object_name, pass) ==
    CASE self.kind = "Then" -> CompileProcess(self.process, pass)
      [] self.kind = "Continue" ->
           LET process == CompileProcess(self.process, pass)
           IN IF ~process.ok THEN process
              ELSE Compiled(Do(object_name, CmdContinue(process.out)))

RECURSIVE PathEnds(_, _), CommandEnds(_, _)

\* how the control paths of a surface process end: "terminal", in a link, a
\* break or a loop, or "open", where the process stops short.  The process
\* that follows a Case is on the paths of the branches that stop short;
\* with dead it counts though no branch does.
PathEnds(process, dead) ==
    CASE process.kind = "Let" -> PathEnds(process.then, dead)
      [] process.kind = "Command" -> CommandEnds(process.command, dead)
      [] process.kind = "Telltypes" -> PathEnds(process.process, dead)
      [] process.kind = "Noop" -> {"open"}

CommandEnds(command, dead) ==
    CASE command.kind \in {"Then", "Continue"} -> PathEnds(command.process, dead)
      [] command.kind \in {"Link", "Break", "Loop"} -> {"terminal"}
      [] command.kind \in {"Send", "Receive", "Choose", "Begin"} ->
           CommandEnds(command.command, dead)
      [] command.kind = "Either" ->
           LET through == UNION {PathEnds(command.branches[i].process, dead) :
                                    i \in 1..Len(command.branches)}
           IN IF command.optional_process # NoProcess /\ (dead \/ "open" \in through)
              THEN (through \ {"open"}) \cup PathEnds(command.optional_process, dead)
              ELSE through

RECURSIVE Forked(_, _), CommandForked(_, _), ExpressionForked(_, _)

\* the processes forked by the expressions on the control paths of a
\* surface process, and by those processes
ExpressionForked(expression, dead) ==
    IF expression.kind = "Fork"
    THEN {expression.process} \cup Forked(expression.process, dead)
    ELSE {}

Forked(process, dead) ==
    CASE process.kind = "Let" ->
           ExpressionForked(process.value, dead) \cup Forked(process.then, dead)
      [] process.kind = "Command" -> CommandForked(process.command, dead)
      [] process.kind = "Telltypes" -> Forked(process.process, dead)
      [] process.kind = "Noop" -> {}

CommandForked(command, dead) ==
    CASE command.kind \in {"Then", "Continue"} -> Forked(command.process, dead)
      [] command.kind = "Link" -> ExpressionForked(command.expression, dead)
      [] command.kind = "Send" ->
           ExpressionForked(command.argument, dead) \cup CommandForked(command.command, dead)
      [] command.kind \in {"Receive", "Choose", "Begin"} ->
           CommandForked(command.command, dead)
      [] command.kind = "Either" ->
           LET through == UNION {PathEnds(command.branches[i].process, dead) :
                                    i \in 1..Len(command.branches)}
           IN UNION {Forked(command.branches[i].process, dead) :
                        i \in 1..Len(command.branches)}
              \cup IF command.optional_process # NoProcess /\ (dead \/ "open" \in through)
                   THEN Forked(command.optional_process, dead)
                   ELSE {}
      [] OTHER -> {}

\* some control path of the process, or of a process it forks, stops short
\* with nothing to follow it
StopsShort(process, dead) ==
    \E q \in {process} \cup Forked(process, dead) : "open" \in PathEnds(q, dead)

RECURSIVE EndsInTerminal(_)

\* every control path of a compiled process, and of the processes it forks,
\* ends in a link, a break or a loop
EndsInTerminal(process) ==
    LET Closed(expression) ==
            expression.expr = "Fork" => EndsInTerminal(expression.process)
    IN CASE process.node = "Let" -> Closed(process.value) /\ EndsInTerminal(process.then)
         [] process.node = "Telltypes" -> EndsInTerminal(process.then)
         [] process.node = "Rest" -> FALSE
         [] process.node = "Do" ->
              LET command == process.command
              IN CASE command.cmd = "Link" -> Closed(command.expression)
                   [] command.cmd \in {"Break", "Loop"} -> TRUE
                   [] command.cmd = "Send" ->
                        Closed(command.argument) /\ EndsInTerminal(command.then)
                   [] command.cmd \in {"Receive", "Choose", "Continue"} ->
                        EndsInTerminal(command.then)
                   [] command.cmd = "Begin" -> EndsInTerminal(command.body)
                   [] command.cmd = "Match" ->
                        \A i \in 1..Len(command.processes) :
                            EndsInTerminal(command.processes[i])

\* the surface processes: those without a process inside,
Shortest ==
    {ProcessNoop, ProcessCommand("x", CommandBreak),
     ProcessCommand("x", CommandLink(ExpressionReference("y"))),
     ProcessCommand("x", CommandLoop("None"))}

\* the branches of a Case over the processes of P, up to MaxBranches of them
CaseBranches(P) ==
    LET branch == {BranchThen("a", p) : p \in P \ {ProcessCommand("x", CommandLoop("None"))}}
                  \cup {BranchContinue("a", p) :
                            p \in {ProcessNoop, ProcessCommand("x", CommandBreak)}}
    IN UNION {[1..n -> branch] : n \in 1..MaxBranches}

\* those with the processes of P inside: after a let of a reference or of
\* a fork and after a command
Longer(P) ==
    {ProcessLet("y", ExpressionReference("z"), p) : p \in P}
    \cup {ProcessLet("y", ExpressionFork("c", q), p) : q \in Shortest, p \in P}
    \cup {ProcessTelltypes(p) : p \in P}
    \cup {ProcessCommand("x", CommandContinue(p)) : p \in P}
    \cup {ProcessCommand("x", CommandSend(ExpressionReference("z"), CommandThen(p))) : p \in P}
    \cup {ProcessCommand("x", CommandReceive("z", CommandThen(p))) : p \in P}
    \cup {ProcessCommand("x", CommandChoose("a", CommandThen(p))) : p \in P}
    \cup {ProcessCommand("x", CommandBegin("None", CommandThen(p))) : p \in P}

\* what follows a Case: nothing, or a let, a telltypes or a command
After(P) ==
    {NoProcess, ProcessLet("y", ExpressionReference("z"), ProcessNoop)}
    \cup (P \ {ProcessNoop})

\* the Cases over the shortest processes
Cases ==
    {ProcessCommand("x", CommandEither(branches, optional)) :
         branches \in CaseBranches(Shortest), optional \in After(Shortest)}

\* a Case that one of the processes of P follows
Following(P) ==
    {ProcessCommand("x", CommandEither(<<BranchThen("a", p)>>, optional)) :
         p \in {ProcessNoop, ProcessCommand("x", CommandBreak)}, optional \in P}

\* a Case with one of the processes of P as its branch
Nesting(P) ==
    {ProcessCommand("x", CommandEither(<<BranchThen("a", p)>>, optional)) :
         p \in P, optional \in After(Shortest)}

Sources ==
    Shortest \cup Longer(Shortest) \cup Cases \cup Longer(Cases)
    \cup Following(Cases) \cup Nesting(Cases)

NotCompiled == [ok |-> FALSE, out |-> NoPass, error |-> "none"]

CompileInit ==
    /\ tasks = <<>>
    /\ chan = <<>>
    /\ drains = {}
    /\ \E process \in Sources :
          checker = [st |-> "source", process |-> process, compiled |-> NotCompiled]

\* the compilation of a definition or of the process of a fork: nothing
\* follows the process
CompileDefinition ==
    /\ checker.st = "source"
    /\ checker' = [checker EXCEPT !.st = "compiled",
                                  !.compiled = CompileProcess(checker.process, NoPass)]
    /\ UNCHANGED <<tasks, chan, drains>>

CompileNext == CompileDefinition

CompileSpec == CompileInit /\ [][CompileNext]_vars

\* C32 as worded: compile fails only with MustEndProcess, and exactly when
\* some control path of the process stops short with nothing to follow it;
\* every control path of a compiled process ends in a terminal command
C32_MustEndProcessOnPaths ==
    checker.st = "compiled"
    => /\ ~checker.compiled.ok => checker.compiled.error = "MustEndProcess"
       /\ ~checker.compiled.ok <=> StopsShort(checker.process, FALSE)
       /\ checker.compiled.ok => EndsInTerminal(checker.compiled.out)

\* C32: compile fails only with MustEndProcess, and exactly when some
\* control path of the process, or of the process that follows a Case in
\* it, be it that no branch of the Case goes on to it, stops short with
\* nothing to follow it; every control path of a compiled process ends in a
\* terminal command.
C32_MustEndProcess ==
    checker.st = "compiled"
    => /\ ~checker.compiled.ok => checker.compiled.error = "MustEndProcess"
       /\ ~checker.compiled.ok <=> StopsShort(checker.process, TRUE)
       /\ checker.compiled.ok => EndsInTerminal(checker.compiled.out)

\* x { a => { x! } } let y = z: no branch goes on to the let, and the let
\* stops short: MustEndProcess
C32_Witness ==
    /\ checker.st = "compiled"
    /\ checker.process =
          ProcessCommand("x",
              CommandEither(<<BranchThen("a", ProcessCommand("x", CommandBreak))>>,
                            ProcessLet("y", ExpressionReference("z"), ProcessNoop)))
    /\ ~checker.compiled.ok

\* task t takes a step from the command cmd with its object at hand
Runs(t, cmd) ==
    /\ AtDo(t, cmd)
    /\ HasVariable(Cur, t, tasks[t].process.name)
    /\ tasks'[t] # tasks[t]

\* the value task t holds under name after the step
BoundTo(t, name, value) ==
    \E i \in 1..Len(tasks'[t].variables) :
        tasks'[t].variables[i] = Binding(name, value)

\* C33: Begin records the name of its object and its body at its label and
\* goes on with the body; Loop(label) binds the object at hand under the
\* name recorded at label and goes on with the body recorded there, and a
\* Loop with a label where nothing is recorded fails with NoSuchLoopPoint.
C33_LoopRebinds ==
    [][\A t \in 1..Len(tasks) :
          LET process == tasks[t].process
              label == process.command.point
              object == ValueOf(Cur, t, process.name)
              point == tasks[t].loop_points[label]
          IN /\ Runs(t, "Begin")
                => /\ tasks'[t].loop_points[label] =
                         [name |-> process.name, body |-> process.command.body]
                   /\ tasks'[t].process = process.command.body
                   /\ BoundTo(t, process.name, object)
             /\ Runs(t, "Loop") /\ point # NoPoint /\ tasks'[t].st # "failed"
                => /\ BoundTo(t, point.name, object)
                   /\ tasks'[t].process = point.body
             /\ Runs(t, "Loop") /\ point = NoPoint
                => /\ tasks'[t].st = "failed"
                   /\ tasks'[t].result = NoSuchLoopPoint(label)]_vars

\* a task that began on x, moved x to y and bound z has looped on y: it is
\* at the body of the begin, with z, and holds the object as x again
C33_Witness ==
    \E t \in 1..Len(tasks) :
        /\ tasks[t].st = "ready"
        /\ tasks[t].loop_points["l"] = [name |-> "x", body |-> Relooping]
        /\ tasks[t].process = Relooping
        /\ HasVariable(Cur, t, "z")
        /\ HasVariable(Cur, t, "x")
        /\ ~HasVariable(Cur, t, "y")

\* task t evaluates the fork of a let and a task is spawned
Forks(t) ==
    /\ Ready(t)
    /\ tasks[t].process.node = "Let"
    /\ tasks[t].process.value.expr = "Fork"
    /\ tasks'[t] # tasks[t]
    /\ Len(tasks') = Len(tasks) + 1

\* C34: the task a Fork spawns starts, at the process of the fork, with
\* exactly the captured variables its parent held and the sender of a
\* channel under the channel name, and with the loop points of its parent;
\* the parent keeps every other variable as it was and gets the receiver of
\* that channel.
C34_ForkSplits ==
    [][\A t \in 1..Len(tasks) :
          Forks(t)
          => LET let == tasks[t].process
                 fork == let.value
                 held == SeqToSet(tasks[t].variables)
                 child == tasks'[Len(tasks')]
             IN \E c \in 1..Len(chan') :
                   /\ SeqToSet(child.variables) =
                         {b \in held : b.name \in fork.captures}
                         \cup {Binding(fork.channel, Sender(c))}
                   /\ \A i, j \in 1..Len(child.variables) :
                         child.variables[i].name = child.variables[j].name => i = j
                   /\ child.loop_points = tasks[t].loop_points
                   /\ child.process = fork.process
                   /\ child.st = "ready"
                   /\ tasks'[t].st = "ready"
                         => SeqToSet(tasks'[t].variables) =
                               {b \in held : b.name \notin fork.captures}
                               \cup {Binding(let.name, Receiver(c))}]_vars

\* a task was forked with x of its parent, which held x and no z, and with
\* the sender as c, and has taken no step; its parent holds the receiver as
\* y and x no more
C34_Witness ==
    \E t, u \in 1..Len(tasks) :
        /\ tasks[u].process = Do("c", CmdSend(Reference("x"), Do("c", CmdBreak)))
        /\ tasks[u].st = "ready"
        /\ HasVariable(Cur, u, "x")
        /\ HasVariable(Cur, u, "c")
        /\ ValueOf(Cur, u, "c").side = "Sender"
        /\ HasVariable(Cur, t, "y")
        /\ ValueOf(Cur, t, "y") = Receiver(ValueOf(Cur, u, "c").ch)
        /\ ~HasVariable(Cur, t, "x")

(***************************************************************************)
(* A program checked, then run                                             *)
(*                                                                         *)
(* A program is the definition of main: a fork with the channel r of an    *)
(* annotated type.  check_process gives the verdict of the checker on its  *)
(* process, a whole process at a time: "yes" when it returns Ok, "no" when *)
(* it returns Err, "diverges" when it does not return, and "unchecked" for *)
(* a process with a part that is not followed here (Rest, a SendType, the  *)
(* inference of the type of a channel that does more than break).  The     *)
(* task of main then runs with the sender of channel 1 as r; the receiver  *)
(* is the root endpoint, which whoever evaluated main holds.               *)
(***************************************************************************)

\* Expression::Fork with chan_annotation: Some(annotation)
ForkAs(captures, channel, annotation, process) ==
    [expr |-> "Fork", captures |-> captures, channel |-> channel,
     annotation |-> annotation, process |-> process]

\* Command::Begin with the captures of the loop
CmdBeginWith(point, captures, body) ==
    [cmd |-> "Begin", point |-> point, captures |-> captures, body |-> body]

Verdict(r) ==
    IF r.ok THEN "yes" ELSE IF r.error = NoReturn THEN "diverges" ELSE "no"

\* Context::split, then Context::capture into it: a captured variable of
\* nonlinear type is put back into the context it was taken from
TypeCapture(c, captures) ==
    LET moved == SelectSeq(c.variables, LAMBDA b : b.name \in captures)
        kept == SelectSeq(c.variables, LAMBDA b : b.name \notin captures)
        back == SelectSeq(moved, LAMBDA b : ~IsLinear(b.typ))
    IN [self |-> [c EXCEPT !.variables = kept \o back],
        target |-> [variables |-> moved, loop_points |-> c.loop_points]]

\* the Command of check_command for a command of a process
CommandOf(object, command) ==
    CASE command.cmd = "Link" ->
            [Command("Link", object) EXCEPT !.name = command.expression.name]
      [] command.cmd = "Send" ->
            [Command("Send", object) EXCEPT !.name = command.argument.name]
      [] command.cmd = "Receive" ->
            [Command("Receive", object) EXCEPT !.name = command.parameter]
      [] command.cmd = "Choose" ->
            [Command("Choose", object) EXCEPT !.branch = command.chosen]
      [] command.cmd = "Begin" ->
            [Command("Begin", object) EXCEPT
                !.label = command.point,
                !.captures = IF "captures" \in DOMAIN command
                             THEN command.captures ELSE {}]
      [] command.cmd = "Loop" ->
            [Command("Loop", object) EXCEPT !.label = command.point]
      [] OTHER -> Command(command.cmd, object)

RECURSIVE CheckProcess(_, _)
RECURSIVE CheckBranches(_, _, _, _, _)
RECURSIVE CheckBranchesSpent(_, _, _, _, _)
RECURSIVE CheckFork(_, _, _)
RECURSIVE InferExpression(_, _)
RECURSIVE CheckExpression(_, _, _)

\* the Fork arm of check_expression and of infer_expression, once the type
\* of the channel is known
CheckFork(c, fork, chan_type) ==
    LET split == TypeCapture(c, fork.captures)
        put == TypePut(split.target, fork.channel, chan_type)
    IN [verdict |-> IF ~put.ok THEN "no" ELSE CheckProcess(put.c, fork.process),
        c |-> split.self, typ |-> DualOf(chan_type)]

\* Context::infer_expression
InferExpression(c, expression) ==
    IF expression.expr = "Reference"
    THEN LET r == InferReference(c, expression.name)
         IN [verdict |-> Verdict(r), c |-> r.c, typ |-> r.typ]
    ELSE IF "annotation" \in DOMAIN expression
    THEN CheckFork(c, expression, expression.annotation)
    ELSE IF expression.process = Do(expression.channel, CmdBreak)
    THEN \* infer_process of a break on the subject: ? for the channel
         LET split == TypeCapture(c, expression.captures)
         IN [verdict |-> Verdict(TypeCannotHaveObligations(split.target)),
             c |-> split.self, typ |-> DualOf(TypeContinue)]
    ELSE [verdict |-> "unchecked", c |-> c, typ |-> TypeBreak]

\* Context::check_expression
CheckExpression(c, expression, target_type) ==
    IF expression.expr = "Reference"
    THEN LET r == CheckReference(c, expression.name, target_type)
         IN [verdict |-> Verdict(r), c |-> r.c, typ |-> target_type]
    ELSE IF "annotation" \in DOMAIN expression
    THEN IF IsAssignableTo(expression.annotation, DualOf(target_type), {}) = "yes"
         THEN CheckFork(c, expression, expression.annotation)
         ELSE [verdict |-> IF IsAssignableTo(expression.annotation,
                                             DualOf(target_type), {}) = "no"
                           THEN "no" ELSE "diverges",
               c |-> c, typ |-> target_type]
    ELSE CheckFork(c, expression, DualOf(target_type))

\* a check of the branches in which the first branch leaves no variable to
\* the branches after it
CheckBranchesSpent(c, typ, object, command, i) ==
    IF i > Len(command.choices) THEN "yes"
    ELSE LET left == IF i = 1 THEN c ELSE [c EXCEPT !.variables = <<>>]
             r == CheckMatch(left, typ,
                      [Command("Match", object) EXCEPT
                          !.branches = command.choices,
                          !.branch = command.choices[i]])
         IN IF ~r.ok THEN Verdict(r)
            ELSE LET branch == CheckProcess(r.c, command.processes[i])
                 IN IF branch # "yes" THEN branch
                    ELSE CheckBranchesSpent(c, typ, object, command, i + 1)

\* the branches of a Match from the i-th on, each from the context c
CheckBranches(c, typ, object, command, i) ==
    IF i > Len(command.choices) THEN "yes"
    ELSE LET r == CheckMatch(c, typ,
                      [Command("Match", object) EXCEPT
                          !.branches = command.choices,
                          !.branch = command.choices[i]])
         IN IF ~r.ok THEN Verdict(r)
            ELSE LET branch == CheckProcess(r.c, command.processes[i])
                 IN IF branch # "yes" THEN branch
                    ELSE CheckBranches(c, typ, object, command, i + 1)

\* Context::check_process
CheckProcess(c, process) ==
    CASE process.node = "Let" ->
            LET inferred == InferExpression(c, process.value)
                put == TypePut(inferred.c, process.name, inferred.typ)
            IN IF inferred.verdict # "yes" THEN inferred.verdict
               ELSE IF ~put.ok THEN "no"
               ELSE CheckProcess(put.c, process.then)
      [] process.node = "Do" ->
            LET object == process.name
                command == process.command
                got == TypeGet(c, object)
                typ == Unfold(got.typ, command.cmd, {})
                r == CheckCommand(got.c, typ, CommandOf(object, command))
            IN IF ~got.ok THEN "no"
               ELSE IF typ = Diverges THEN "diverges"
               ELSE CASE command.cmd \in {"Break", "Loop"} -> Verdict(r)
                      [] command.cmd = "Link" ->
                            IF command.expression.expr = "Reference"
                            THEN Verdict(r) ELSE "unchecked"
                      [] command.cmd = "Send" /\ command.argument.expr = "Fork" ->
                            IF typ.kind # "Receive" THEN "no"
                            ELSE LET sent == CheckExpression(got.c, command.argument, typ.t)
                                     put == TypePut(sent.c, object, typ.u)
                                 IN IF sent.verdict # "yes" THEN sent.verdict
                                    ELSE IF ~put.ok THEN "no"
                                    ELSE CheckProcess(put.c, command.then)
                      [] command.cmd \in {"Send", "Receive", "Choose", "Continue"} ->
                            IF ~r.ok THEN Verdict(r)
                            ELSE CheckProcess(r.c, command.then)
                      [] command.cmd = "Begin" ->
                            IF ~r.ok THEN Verdict(r)
                            ELSE CheckProcess(r.c, command.body)
                      [] command.cmd = "Match" ->
                            IF typ.kind # "Either" THEN "no"
                            ELSE IF Missing(typ.branches, command.choices) # <<>>
                            THEN "no"
                            ELSE CheckBranches(got.c, typ, object, command, 1)
                      [] OTHER -> "unchecked"
      [] process.node = "Telltypes" -> "no"
      [] OTHER -> "unchecked"

\* recursive either { .a !, .b self }
Counted == TypeRecursive(<<>>, "None",
               TypeEither([a |-> TypeBreak, b |-> TypeSelf("None")]))

\* choice { .a => ! }
Offer == TypeChoice([a |-> TypeBreak])

\* d.a; r.a; d <> r
Offering ==
    Do("d", CmdChoose("a", Do("r", CmdChoose("a", Do("d", CmdLink(Reference("r")))))))

\* main: the type of its channel r and its process
Main(typ, process) == [typ |-> typ, process |-> process]

\* x? r!
Ending == Do("x", CmdContinue(Do("r", CmdBreak)))

Programs ==
    {\* let u = !; r!
     Main(TypeContinue, Let("u", Unit, Do("r", CmdBreak))),
     \* let u = !; u? r!
     Main(TypeContinue, Let("u", Unit, Do("u", CmdContinue(Do("r", CmdBreak))))),
     \* let u = !; r(u); u? r!
     Main(TypeReceive(TypeBreak, TypeContinue),
          Let("u", Unit,
              Do("r", CmdSend(Reference("u"),
                      Do("u", CmdContinue(Do("r", CmdBreak))))))),
     \* let u = !; let u = !; u? r!
     Main(TypeContinue,
          Let("u", Unit, Let("u", Unit, Do("u", CmdContinue(Do("r", CmdBreak)))))),
     \* let x = chan c: [!] ? { c(!); c! }; x[y]; y? x? r!
     Main(TypeContinue,
          Let("x", ForkAs({}, "c", TypeReceive(TypeBreak, TypeContinue),
                          Do("c", CmdSend(Unit, Do("c", CmdBreak)))),
              Do("x", CmdReceive("y", Do("y", CmdContinue(Ending)))))),
     \* let x = chan c: { .a => ?, .b => ? } { c.a; c! }; x { a => { x? r! } b => { x? r! } }
     Main(TypeContinue,
          Let("x", ForkAs({}, "c", TypeChoice([a |-> TypeContinue, b |-> TypeContinue]),
                          Do("c", CmdChoose("a", Do("c", CmdBreak)))),
              Do("x", CmdMatch(<<"a", "b">>, <<Ending, Ending>>)))),
     \* let x = !; r <> x
     Main(TypeContinue, Let("x", Unit, Do("r", CmdLink(Reference("x"))))),
     \* let x = chan c: ? { c! }; x <> r
     Main(TypeContinue,
          Let("x", ForkAs({}, "c", TypeContinue, Do("c", CmdBreak)),
              Do("x", CmdLink(Reference("r"))))),
     \* let x = chan c: dual Counted { c.b; c.a; c! };
     \* x begin { a => { x? r! } b => { x loop } }
     Main(TypeContinue,
          Let("x", ForkAs({}, "c", DualOf(Counted),
                          Do("c", CmdChoose("b", Do("c", CmdChoose("a", Do("c", CmdBreak)))))),
              Do("x", CmdBeginWith("None", {"r"},
                      Do("x", CmdMatch(<<"a", "b">>,
                                       <<Ending, Do("x", CmdLoop("None"))>>)))))),
     \* let x = chan c: (!) ? { c[y]; y? c! }; x(!); x? r!
     Main(TypeContinue,
          Let("x", ForkAs({}, "c", TypeSend(TypeBreak, TypeContinue),
                          Do("c", CmdReceive("y", Do("y", CmdContinue(Do("c", CmdBreak)))))),
              Do("x", CmdSend(Unit, Ending)))),
     \* let x = chan c: either { .a ?, .b ? } { c { a => { c! } b => { c! } } }; x.a; x? r!
     Main(TypeContinue,
          Let("x", ForkAs({}, "c", TypeEither([a |-> TypeContinue, b |-> TypeContinue]),
                          Do("c", CmdMatch(<<"a", "b">>,
                                           <<Do("c", CmdBreak), Do("c", CmdBreak)>>))),
              Do("x", CmdChoose("a", Ending)))),
     \* let x = chan c: ! { c? r! }; x!
     Main(TypeContinue,
          Let("x", ForkAs({"r"}, "c", TypeBreak, Do("c", CmdContinue(Do("r", CmdBreak)))),
              Do("x", CmdBreak))),
     \* let x = !; let y = chan c: ! { c? r! }; y <> x
     Main(TypeContinue,
          Let("x", Unit,
              Let("y", ForkAs({"r"}, "c", TypeBreak,
                              Do("c", CmdContinue(Do("r", CmdBreak)))),
                  Do("y", CmdLink(Reference("x")))))),
     \* let y = !;
     \* let x = chan c: [either { .a ? }] ? { c(chan d: Offer { d.a; r.a; d <> r }); c! };
     \* x[y]; x? y { a => { y! } }
     Main(TypeChoice([a |-> TypeContinue]),
          Let("y", Unit,
              Let("x", ForkAs({"r"}, "c", TypeReceive(DualOf(Offer), TypeContinue),
                              Do("c", CmdSend(ForkAs({"r"}, "d", Offer, Offering),
                                              Do("c", CmdBreak)))),
                  Do("x", CmdReceive("y",
                          Do("x", CmdContinue(
                                  Do("y", CmdMatch(<<"a">>, <<Do("y", CmdBreak)>>))))))))),
     \* r begin; r loop, of r : recursive self
     Main(Idle, Do("r", CmdBegin("None", Do("r", CmdLoop("None"))))),
     \* r!, of r : !
     Main(TypeBreak, Do("r", CmdBreak)),
     \* let x = chan c: ? { c! }; x[y]; x? r!
     Main(TypeContinue,
          Let("x", ForkAs({}, "c", TypeContinue, Do("c", CmdBreak)),
              Do("x", CmdReceive("y", Ending)))),
     \* let x = chan c: ? { c.a; c! }; x? r!
     Main(TypeContinue,
          Let("x", ForkAs({}, "c", TypeContinue, Do("c", CmdChoose("a", Do("c", CmdBreak)))),
              Ending)),
     \* r loop
     Main(TypeContinue, Do("r", CmdLoop("l"))),
     Main(TypeContinue, Telltypes(Do("r", CmdBreak))),
     Main(TypeContinue, Do("r", CmdSendType(Do("r", CmdBreak))))}

\* Context::new, with the channel of main
MainContext(main) ==
    [variables |-> <<Typed("r", main.typ)>>, loop_points |-> NoTypeLoopPoints]

Verdicts(main) ==
    [st |-> "verdict", main |-> main,
     accepted |-> CheckProcess(MainContext(main), main.process)]

SoundInit ==
    /\ \E main \in Programs :
          /\ tasks = <<Holding(<<Binding("r", Sender(1))>>, main.process)>>
          /\ checker = Verdicts(main)
    /\ chan = <<FreshCell>>
    /\ drains = {}

SoundSpec == SoundInit /\ [][Next]_vars

Accepted == checker.st = "verdict" /\ checker.accepted = "yes"

RuntimeErrors ==
    {"NameNotDefined", "ShadowedObligation", "UnfulfilledObligations",
     "IncompatibleOperations", "NoSuchLoopPoint"}

\* C35: running a program the checker accepted produces no runtime error:
\* no task fails with NameNotDefined, ShadowedObligation,
\* UnfulfilledObligations, IncompatibleOperations or NoSuchLoopPoint.
C35_AcceptedRunsClean ==
    Accepted
    => \A t \in 1..Len(tasks) :
          tasks[t].st = "failed" => tasks[t].result.kind \notin RuntimeErrors

(***************************************************************************)
(* The run of a program under a fair scheduler: a task that can take a     *)
(* step is polled again, and so is a drain task.                           *)
(***************************************************************************)
\* one poll of task t
Poll(t) ==
    \/ RunLet(t) \/ RunLink(t) \/ RunSend(t) \/ RunReceive(t) \/ RunChoose(t)
    \/ RunMatch(t) \/ RunBreak(t) \/ RunContinue(t) \/ RunBegin(t) \/ RunLoop(t)
    \/ RunSendType(t) \/ RunTelltypes(t)
    \/ WakeSendTo(t) \/ WakeChooseIn(t) \/ WakeBreakTo(t) \/ WakeReceiveFrom(t)
    \/ WakeEitherOf(t) \/ WakeContinueFrom(t)
    \/ WakeLinkFirst(t) \/ WakeLinkSecond(t) \/ WakeLinkForward(t)

PollDrain == \E d \in drains : DrainSender(d) \/ DrainReceiver(d)

FairSoundSpec ==
    /\ SoundSpec
    /\ \A t \in 1..MaxTask : WF_vars(Poll(t))
    /\ WF_vars(PollDrain)

\* run has returned in every task
AllFinished ==
    \A t \in 1..Len(tasks) : tasks[t].st \in {"done", "failed", "panicked"}

\* C36: every fair run of a program the checker accepted, none of whose
\* begins is unfounded, reaches a state in which all of its tasks have
\* finished.
C36_AcceptedTerminates == Accepted ~> AllFinished

(***************************************************************************)
(* Two runs of one program, side by side                                   *)
(*                                                                         *)
(* tasks, chan and drains are the run that takes the next step; checker    *)
(* holds the other run, which started from the same program, and the two   *)
(* change places at any time, so that every pair of interleavings of the   *)
(* two runs is reached.                                                    *)
(***************************************************************************)
Twin(main) ==
    [st |-> "twin", main |-> main,
     accepted |-> CheckProcess(MainContext(main), main.process),
     tasks |-> <<Holding(<<Binding("r", Sender(1))>>, main.process)>>,
     chan |-> <<FreshCell>>, drains |-> {}]

TwinInit ==
    /\ \E main \in Programs :
          /\ tasks = <<Holding(<<Binding("r", Sender(1))>>, main.process)>>
          /\ checker = Twin(main)
    /\ chan = <<FreshCell>>
    /\ drains = {}

\* the other run comes to the front
SwapTwins ==
    /\ checker.st = "twin"
    /\ tasks' = checker.tasks
    /\ chan' = checker.chan
    /\ drains' = checker.drains
    /\ checker' = [checker EXCEPT !.tasks = tasks, !.chan = chan, !.drains = drains]

TwinNext == Next \/ SwapTwins

TwinSpec == TwinInit /\ [][TwinNext]_vars

\* what the holder of a receiver sees of a message: not the channels in it
Shape(message) ==
    CASE message.kind = "Choose" -> [kind |-> "Choose", of |-> message.chosen]
      [] message.kind = "Error" -> [kind |-> "Error", of |-> message.error]
      [] message.kind = "Swap" -> [kind |-> "Swap", of |-> message.request.kind]
      [] OTHER -> [kind |-> message.kind, of |-> ""]

RECURSIVE Delivered(_, _, _)
\* the messages sent to the receiver of channel c and to the receivers that
\* came with them, in order
Delivered(channels, c, fuel) ==
    IF fuel = 0 \/ c \notin 1..Len(channels) THEN <<>>
    ELSE IF channels[c].sent = <<>> THEN <<>>
    ELSE LET message == channels[c].sent[1]
         IN <<Shape(message)>> \o
            (IF message.kind \in {"Send", "Choose"}
             THEN Delivered(channels, message.rx, fuel - 1)
             ELSE <<>>)

\* the messages delivered at the root endpoint, the receiver of channel 1
AtRoot(channels) == Delivered(channels, 1, Len(channels))

IsPrefix(p, q) == Len(p) <= Len(q) /\ SubSeq(q, 1, Len(p)) = p

\* every task of a run has returned and no drain task is left
AtRest(ts, ds) ==
    /\ ds = {}
    /\ \A t \in 1..Len(ts) : ts[t].st \in {"done", "failed", "panicked"}

TwinAccepted == checker.st = "twin" /\ checker.accepted = "yes"

\* C37: the sequence of messages delivered at the root endpoint of a
\* program is the same in every interleaving of its tasks: of two runs of
\* the program, what one has delivered so far is the beginning of what the
\* other has, and two runs that have ended have delivered the same.
C37_SameDelivery ==
    TwinAccepted
    => /\ \/ IsPrefix(AtRoot(chan), AtRoot(checker.chan))
          \/ IsPrefix(AtRoot(checker.chan), AtRoot(chan))
       /\ AtRest(tasks, drains) /\ AtRest(checker.tasks, checker.drains)
             => AtRoot(chan) = AtRoot(checker.chan)

(***************************************************************************)
(* A definition checked when a process first refers to it                  *)
(*                                                                         *)
(* Context::get of a name that is no local variable calls                  *)
(* check_definition on the Context of the process that refers to it.       *)
(* `checker` is that Context: its variables, the unchecked definitions     *)
(* (none declared), the types of the checked ones (Unchecked: none yet)    *)
(* and current_deps; got is the name and the type of the last get.         *)
(***************************************************************************)
Definitions == {"a", "b"}
LocalNames == {"b", "x"}

Unchecked == [kind |-> "unchecked"]

\* chan c : ? { c! }, of type !
Done == ForkAs({}, "c", TypeContinue, Do("c", CmdBreak))
\* chan c : (!) ? { c[y]; y? c! }, of the linear type [!] !
Taking == ForkAs({}, "c", TypeSend(TypeBreak, TypeContinue),
                 Do("c", CmdReceive("y", Do("y", CmdContinue(Do("c", CmdBreak))))))

\* the expressions of the definitions
DefExpressions ==
    {Reference("a"), Reference("b"), Reference("x"), Done, Taking}

\* the types of the local variables: ! and the linear ?
LocalTypes == {TypeBreak, TypeContinue}

RECURSIVE GetFrom(_, _)
RECURSIVE InferDefinition(_, _)
RECURSIVE CheckDefinitionFrom(_, _)

\* infer_expression of the expression of a definition, on the Context k
InferDefinition(k, expression) ==
    IF expression.expr = "Reference"
    THEN LET got == GetFrom(k, expression.name)
         IN IF ~got.ok \/ IsLinear(got.typ) THEN got
            ELSE [got EXCEPT !.k.variables = Insert(@, expression.name, got.typ)]
    ELSE \* a fork with an annotation that captures nothing and whose process
         \* is accepted in the Context split off for it
         [ok |-> TRUE, k |-> k, typ |-> DualOf(expression.annotation),
          error |-> NoTypeError]

\* Context::check_definition, on the Context k
CheckDefinitionFrom(k, name) ==
    IF name \in Definitions /\ k.checked[name] # Unchecked
    THEN [ok |-> TRUE, k |-> k, typ |-> k.checked[name], error |-> NoTypeError]
    ELSE IF name \notin Definitions
    THEN [ok |-> FALSE, k |-> k, typ |-> Unchecked, error |-> TypeNameNotDefined(name)]
    ELSE IF AscContains(k.current_deps, name)
    THEN [ok |-> FALSE, k |-> k, typ |-> Unchecked,
          error |-> DependencyCycle(SkipWhile(k.current_deps, name))]
    ELSE LET r == InferDefinition([k EXCEPT !.current_deps = Append(@, name)],
                                  k.unchecked[name])
         IN IF ~r.ok THEN r
            ELSE [r EXCEPT !.k.checked[name] = r.typ]

\* Context::get, on the Context k
GetFrom(k, name) ==
    IF IsBound(k.variables, name)
    THEN [ok |-> TRUE, k |-> [k EXCEPT !.variables = ShiftRemove(@, name)],
          typ |-> TypeOf(k.variables, name), error |-> NoTypeError]
    ELSE CheckDefinitionFrom(k, name)

\* the local variables of the process: b and x, each held or not
LocalVariables ==
    {SelectSeq(<<[name |-> "b", typ |-> typs[1]], [name |-> "x", typ |-> typs[2]]>>,
               LAMBDA v : v.typ # Unchecked) :
        typs \in [1..2 -> LocalTypes \cup {Unchecked}]}

Referring(variables, unchecked) ==
    [st |-> "refer", variables |-> variables, loop_points |-> NoTypeLoopPoints,
     unchecked |-> unchecked, checked |-> [g \in Definitions |-> Unchecked],
     current_deps |-> <<>>, result |-> NoTypeError,
     got |-> [name |-> "", typ |-> Unchecked]]

ReferInit ==
    /\ tasks = <<>>
    /\ chan = <<>>
    /\ drains = {}
    /\ \E variables \in LocalVariables, unchecked \in [Definitions -> DefExpressions] :
          checker = Referring(variables, unchecked)

\* the process gets `name`
Refer(name) ==
    /\ checker.st = "refer"
    /\ LET r == GetFrom(checker, name)
       IN checker' = [r.k EXCEPT !.st = IF r.ok THEN "refer" ELSE "err",
                                 !.result = r.error,
                                 !.got = [name |-> name, typ |-> r.typ]]
    /\ UNCHANGED <<tasks, chan, drains>>

ReferNext == \E name \in Definitions \cup LocalNames : Refer(name)

ReferSpec == ReferInit /\ [][ReferNext]_vars

\* the step checked the definition `name` for the first time, and accepted it
FirstChecks(name) ==
    /\ checker.st = "refer"
    /\ checker'.st = "refer"
    /\ checker'.got.name = name
    /\ ~IsBound(checker.variables, name)
    /\ checker.checked[name] = Unchecked

\* the same Context without local variables
WithoutLocals(k) == [k EXCEPT !.variables = <<>>]

\* C38: the type computed and cached for a global definition is the same
\* whatever local variables the referring process holds when the definition
\* is first checked, and checking it neither consumes nor adds local
\* variables of the referring process.
C38_DefinitionApart ==
    [][\A name \in Definitions :
          FirstChecks(name)
          => /\ checker'.variables = checker.variables
             /\ CheckDefinitionFrom(WithoutLocals(checker), name).ok
             /\ checker'.checked[name] =
                   CheckDefinitionFrom(WithoutLocals(checker), name).typ]_vars

(***************************************************************************)
(* The Matches of a program, as check_process comes to them                *)
(***************************************************************************)
RECURSIVE MatchesOf(_, _)
RECURSIVE MatchesOfBranches(_, _, _, _, _)

\* the Matches in the branches of a Match, from the i-th branch on
MatchesOfBranches(c, typ, object, command, i) ==
    IF i > Len(command.choices) THEN {}
    ELSE LET r == CheckMatch(c, typ,
                      [Command("Match", object) EXCEPT
                          !.branches = command.choices,
                          !.branch = command.choices[i]])
         IN (IF r.ok THEN MatchesOf(r.c, command.processes[i]) ELSE {})
            \cup MatchesOfBranches(c, typ, object, command, i + 1)

\* every Match check_process reaches in `process`, started from the context
\* c, with the context it has after the object was taken from it
MatchesOf(c, process) ==
    CASE process.node = "Let" ->
            LET value == process.value
                inferred == InferExpression(c, value)
                put == TypePut(inferred.c, process.name, inferred.typ)
                child == IF value.expr = "Fork" /\ "annotation" \in DOMAIN value
                         THEN TypePut(TypeCapture(c, value.captures).target,
                                      value.channel, value.annotation)
                         ELSE Failed(c, NoTypeError)
            IN (IF child.ok THEN MatchesOf(child.c, value.process) ELSE {})
               \cup (IF inferred.verdict = "yes" /\ put.ok
                     THEN MatchesOf(put.c, process.then) ELSE {})
      [] process.node = "Do" ->
            LET object == process.name
                command == process.command
                got == TypeGet(c, object)
                typ == Unfold(got.typ, command.cmd, {})
                r == CheckCommand(got.c, typ, CommandOf(object, command))
            IN IF ~got.ok \/ typ = Diverges THEN {}
               ELSE CASE command.cmd = "Match" ->
                            IF typ.kind # "Either"
                               \/ Missing(typ.branches, command.choices) # <<>>
                            THEN {}
                            ELSE {[c |-> got.c, typ |-> typ, object |-> object,
                                   command |-> command]}
                                 \cup MatchesOfBranches(got.c, typ, object, command, 1)
                      [] /\ command.cmd \in {"Send", "Receive", "Choose", "Continue"}
                         /\ (command.cmd = "Send" => command.argument.expr = "Reference") ->
                            IF r.ok THEN MatchesOf(r.c, command.then) ELSE {}
                      [] command.cmd = "Begin" ->
                            IF r.ok THEN MatchesOf(r.c, command.body) ELSE {}
                      [] OTHER -> {}
      [] OTHER -> {}

\* the verdict on the i-th branch of the Match m, checked by itself from the
\* context in force just before the Match with the object rebound
BranchApart(m, i) ==
    LET r == CheckMatch(m.c, m.typ,
                 [Command("Match", m.object) EXCEPT
                     !.branches = m.command.choices,
                     !.branch = m.command.choices[i]])
    IN IF ~r.ok THEN Verdict(r)
       ELSE CheckProcess([r.c EXCEPT !.variables =
                            Insert(m.c.variables, m.object,
                                   m.typ.branches[m.command.choices[i]])],
                         m.command.processes[i])

MaxPieces == 3

NL == "\n"
Quote == "\""

Letters == {"a", "b"}
Digits == {"1"}

Pieces ==
    {<<"a">>, <<"a", "b">>, <<"1">>, <<" ">>, <<NL>>,
     <<Quote, "a", Quote>>, <<Quote, "a">>,
     <<"/", "/", "a">>,
     <<"/", "*", " ", "*", "/">>,
     <<"/", "*", "/", "*", "*", "/", NL, "*", "/">>,
     <<"/">>, <<"*">>, <<"<", ">">>, <<"<">>}

RECURSIVE Flat(_)
Flat(pieces) == IF pieces = <<>> THEN <<>> ELSE Head(pieces) \o Flat(Tail(pieces))

Inputs == {Flat(pieces) : pieces \in UNION {[1..n -> Pieces] : n \in 0..MaxPieces}}

Point(offset, row, column) == [offset |-> offset, row |-> row, column |-> column]

Lexing(input) ==
    [st |-> "lex", input |-> input, p |-> 0, row |-> 0,
     last_newline |-> Len(input), idx |-> 0, tokens |-> <<>>]

\* input.len()
Left(k) == Len(k.input) - k.p

\* peek(any)
Peek(k) == k.input[k.p + 1]

\* take_while(0.., set) at position p: the number of characters taken
Run(input, p, set) ==
    CHOOSE n \in 0..(Len(input) - p) :
        /\ \A i \in 1..n : input[p + i] \in set
        /\ n = Len(input) - p \/ input[p + n + 1] \notin set

RECURSIVE CommentBlockRest(_, _, _)
\* comment_block_rest from position q: the position it stops at, or -1
\* when it fails
CommentBlockRest(input, q, nesting) ==
    IF Len(input) - q = 0 THEN q
    ELSE IF Len(input) - q = 1 THEN -1
    ELSE LET next_2 == <<input[q + 1], input[q + 2]>>
         IN IF next_2 = <<"/", "*">> THEN CommentBlockRest(input, q + 2, nesting + 1)
            ELSE IF next_2 = <<"*", "/">> /\ nesting > 0
            THEN CommentBlockRest(input, q + 2, nesting - 1)
            ELSE IF next_2 = <<"*", "/">> THEN q + 2
            ELSE CommentBlockRest(input, q + 1, nesting)

\* comment() at position p: the length of the comment, or -1 when there is
\* none
Comment(input, p) ==
    IF Len(input) - p < 2 THEN -1
    ELSE IF <<input[p + 1], input[p + 2]>> = <<"/", "/">>
    THEN 2 + Run(input, p + 2, {input[i] : i \in 1..Len(input)} \ {NL})
    ELSE IF <<input[p + 1], input[p + 2]>> = <<"/", "*">>
    THEN IF CommentBlockRest(input, p + 2, 0) = -1 THEN -1
         ELSE CommentBlockRest(input, p + 2, 0) - p
    ELSE -1

\* the end of an iteration that found a token: raw starts skip characters
\* after p and has n characters, and lex consumed `consumed` characters
Pushed(k, kind, skip, n, consumed) ==
    LET column == k.last_newline - Left(k)
        start == Point(k.idx, k.row, column)
        end == Point(k.idx + n, k.row, column + n)
    IN [k EXCEPT !.p = @ + consumed,
                 !.idx = @ + n,
                 !.tokens = Append(@, [kind |-> kind,
                                       raw |-> SubSeq(k.input, k.p + skip + 1,
                                                      k.p + skip + n),
                                       start |-> start, end |-> end,
                                       at |-> k.p, len |-> consumed])]

LexInit ==
    /\ tasks = <<>>
    /\ chan = <<>>
    /\ drains = {}
    /\ \E input \in Inputs : checker = Lexing(input)

\* one turn of the loop of lex, on the character c
Turn(set) ==
    /\ checker.st = "lex"
    /\ Left(checker) > 0
    /\ Peek(checker) \in set
    /\ UNCHANGED <<tasks, chan, drains>>

\* '0'..='9' | '-' | '+'
LexInteger ==
    /\ Turn(Digits)
    /\ LET n == 1 + Run(checker.input, checker.p + 1, Digits)
       IN checker' = Pushed(checker, "Integer", 0, n, n)

\* '"'
LexString ==
    /\ Turn({Quote})
    /\ LET n == Run(checker.input, checker.p + 1,
                    {checker.input[i] : i \in 1..Len(checker.input)} \ {Quote})
           is_closed == checker.p + 1 + n < Len(checker.input)
       IN checker' = Pushed(checker, IF is_closed THEN "String" ELSE "InvalidString",
                            1, n, IF is_closed THEN n + 2 ELSE n + 1)

\* 'a'..='z' | 'A'..='Z' | '_'
LexWord ==
    /\ Turn(Letters)
    /\ LET n == Run(checker.input, checker.p, Letters \cup Digits)
       IN checker' = Pushed(checker, "LowercaseIdentifier", 0, n, n)

\* '\n'
LexNewline ==
    /\ Turn({NL})
    /\ checker' = [checker EXCEPT !.p = @ + 1, !.row = @ + 1,
                                  !.last_newline = Left(checker) - 1,
                                  !.idx = @ + 1]

\* ' ' | '\t' | '\r'
LexBlank ==
    /\ Turn({" "})
    /\ checker' = [checker EXCEPT !.p = @ + 1, !.idx = @ + 1]

\* '<': "<>" or "<"
LexLt ==
    /\ Turn({"<"})
    /\ IF Left(checker) >= 2 /\ checker.input[checker.p + 2] = ">"
       THEN checker' = Pushed(checker, "Link", 0, 2, 2)
       ELSE checker' = Pushed(checker, "Lt", 0, 1, 1)

\* '/': a comment, or the token
LexSlash ==
    /\ Turn({"/"})
    /\ LET n == Comment(checker.input, checker.p)
           raw == SubSeq(checker.input, checker.p + 1, checker.p + n)
           newlines == {i \in 1..n : raw[i] = NL}
           extra_len == n - (CHOOSE i \in newlines : \A j \in newlines : j <= i)
       IN IF n = -1 THEN checker' = Pushed(checker, "Slash", 0, 1, 1)
          ELSE checker' =
                 [checker EXCEPT
                     !.p = @ + n,
                     !.last_newline = IF newlines = {} THEN @
                                      ELSE Left(checker) - n + extra_len,
                     !.row = @ + Cardinality(newlines),
                     !.idx = @ + n]

\* the arms of one character: '>', '*' and the like
LexOne ==
    /\ Turn({">", "*"})
    /\ checker' = Pushed(checker, IF Peek(checker) = ">" THEN "Gt" ELSE "Star", 0, 1, 1)

LexNext ==
    \/ LexInteger \/ LexString \/ LexWord \/ LexNewline \/ LexBlank
    \/ LexLt \/ LexSlash \/ LexOne

LexSpec == LexInit /\ [][LexNext]_vars

\* the zero-based line of the character after the first `at` characters
RowOf(input, at) == Cardinality({j \in 1..at : input[j] = NL})

\* its zero-based column
ColumnOf(input, at) ==
    LET newlines == {j \in 1..at : input[j] = NL}
    IN IF newlines = {} THEN at
       ELSE at - (CHOOSE j \in newlines : \A i \in newlines : i <= j)

\* C40: for every token lex produces, span.start.offset is the offset of
\* the token's first character in the input, span.end.offset minus
\* span.start.offset is the token's length in the input, and row and column
\* are the zero-based line and column of that character, also after
\* comments and string literals.
C40_SpansAreExact ==
    checker.st = "lex"
    => \A i \in 1..Len(checker.tokens) :
          LET token == checker.tokens[i]
          IN /\ token.start.offset = token.at
             /\ token.end.offset - token.start.offset = token.len
             /\ token.start.row = RowOf(checker.input, token.at)
             /\ token.start.column = ColumnOf(checker.input, token.at)
====
